---- MODULE Spec2Model ----
(***************************************************************************)
(* Signaling gateway (SignalingServer, RoomManager, SFUManager, Redis      *)
(* placement store, RateLimiterService) and SFU node (WorkerManager,       *)
(* RouterManager) of the streaming platform, as a state machine.           *)
(*                                                                         *)
(* Execution model.  The gateway is one Node.js event loop.  A handler     *)
(* runs synchronously up to an `await`.  An await of real I/O (a Redis     *)
(* command, a call of the auth service) suspends the handler until the     *)
(* reply event; Redis replies come back in the order the commands were     *)
(* sent (one connection, redisQ).  An await that reaches no I/O suspends   *)
(* the handler only for the rest of the current turn of the loop: its      *)
(* continuation is a microtask, run before the next event is taken.        *)
(* A task's field w tells what it waits for: "ready" (microtask), "redis"  *)
(* or "auth".  Events of one source (frames of one socket, replies of the  *)
(* Redis connection) may be delivered in the same turn.                    *)
(***************************************************************************)
EXTENDS Integers, Sequences, FiniteSets, TLC

\* ---------------------------------------------------------------- bounds
\* Date.now() ranges over 0..MaxTime.
MaxTime == 1
\* Message handlers of one connection that may be in flight together.
MaxInflight == 2
\* Producers one connection may own (produce is not sent beyond it).
MaxProducers == 1
\* Messages connection c1 sends in a session, a media and an any-order run;
\* the other connections send one less.
MaxSessionMsgs == 3
MaxMediaMsgs == 4
MaxAnyMsgs == 3
\* Messages a connection sends that may log in again.
MaxIdentityMsgs == 4

\* Workers of the SFU node (config.mediasoup.numWorkers).
NumWorkers == 2
\* Times a worker of the SFU node is restarted.
MaxRestarts == 1
\* Routers the SFU node creates.
MaxRouters == 2
\* createRouter / closeRouter calls the SFU node has in flight together.
MaxSfuOps == 2
\* A worker's CPU factor (its CPU seconds, in whole seconds) at most.
MaxUsage == 2
\* Transports, producers and consumers made in one router together.
MaxCtxObjects == 4
\* Messages the connection sends in a run with the SFU node.
MaxNodeMsgs == 3

\* The connection limiter: points per window, window and block in seconds
\* (config.connectionPoints, connectionDuration, connectionBlockDuration),
\* scaled down.
ConnectionPoints == 2
ConnectionDuration == 2
ConnectionBlockDuration == 3
\* Clock ticks per second: msBeforeNext is counted in ticks.
TicksPerSecond == 2
\* Connection attempts of the source address, and how long they are watched.
MaxAttempts == ConnectionPoints + 2
MaxClock == (ConnectionDuration + ConnectionBlockDuration) * TicksPerSecond + 2

\* The message limiters: points per window and window of one connection
\* (config.messagePoints, messageDuration) and of one user
\* (config.globalMessagePoints, globalMessageDuration), scaled down, the
\* windows in clock ticks.
MessagePoints == 2
MessageWindowTicks == 1
GlobalMessagePoints == 2
GlobalWindowTicks == 2
\* Messages the limiters are asked about, and how long they are watched.
MaxMsgs == 5
MaxMsgClock == 2

\* The connection probe: pingClients runs every PingInterval seconds and
\* terminates a client whose last pong is more than PingTimeout seconds ago.
PingInterval == 30
PingTimeout == 60
\* The end of the probe's time, and the messages connection c1 sends in a
\* run with the probe.
MaxPingClock == 90
MaxPingMsgs == 3

\* CircuitBreakerService: failures before the circuit opens, seconds before
\* recovery is tried, lifetime of the cache entries, successes that close a
\* half-open circuit.
FAILURE_THRESHOLD == 5
TIMEOUT_SECONDS == 60
RETRY_AFTER_SECONDS == 60
SUCCESS_THRESHOLD == 2
\* Seconds by which the circuit breaker's time advances in one step, its
\* start and its end.
BreakerStep == 30
BreakerStart == 30
MaxBreakerClock == 420

\* The node registry: the heartbeat key lives HeartbeatTTL seconds, the stats
\* key StatsTTL; a heartbeat older than StaleAfter seconds is stale (60000 ms).
HeartbeatTTL == 30
StatsTTL == 60
StaleAfter == 60
\* Seconds by which the registry's time advances in one step, and its end.
TickSeconds == 30
MaxHealthClock == 60
\* Routers a node reports at most, and the levels of its CPU factor above 0.
MaxLoad == 1
MaxCpu == 1

Conns == {"c1", "c2"}
Users == {"u1", "u2"}
Rooms == {"r1"}
Kinds == {"audio", "video"}
NodeIds == {"n1", "n2"}
\* rtpCapabilities a client may declare: the media kinds it can receive.
CapsChoices == {{"audio"}, {"audio", "video"}}
\* Slot 0 holds the socket's close handler, the others message handlers.
CloseSlot == 0
Slots == 0..MaxInflight
MsgSlots == 1..MaxInflight

\* ------------------------------------------------------------ identifiers
NoPid == [user |-> "none", t |-> 0 - 1]
NoProd == [kind |-> "none", pid |-> NoPid, t |-> 0 - 1]
NoRouter == [src |-> "none", room |-> "none", n |-> 0 - 1]
NoPlacement == [nodeId |-> "none", routerId |-> NoRouter]
NoRoom == [exists |-> FALSE, sfuNode |-> "none", routerId |-> NoRouter, parts |-> <<>>]
\* The connection limiter's store has no entry for the key.
NoEntry == [count |-> 0, expiresAt |-> 0]
NoAlloc == [node |-> "none", routerId |-> NoRouter]
\* The keys of one service in the circuit breaker's cache.
CacheKeys == {"state:open", "state:half_open", "failures", "opened_at", "half_open_successes"}
\* The cache has no entry for the key.
NoItem == [value |-> 0, expiresAt |-> 0]
\* No execute was made yet.
NoExecute == [state |-> "none", called |-> FALSE, result |-> "none", seq |-> 0, oks |-> 0]
\* No closeRouter call was made yet.
NoClose == [routerId |-> NoRouter, closed |-> <<>>]
\* The last step of the SFU node returned from no createRouter call.
NoReturn == [room |-> "none", routerId |-> NoRouter]
\* The store has no heartbeat and no stats of the node.
NoReport == [at |-> 0 - 1, routers |-> 0, cpu |-> 0]
\* The last step was no health check.
NoCheck == [node |-> "none", was |-> TRUE]

\* `p-${user.id}-${Date.now()}`
ParticipantIdOf(u, t) == [user |-> u, t |-> t]
\* `producer-${kind}-${participantId}-${Date.now()}`
ProducerIdOf(kind, pid, t) == [kind |-> kind, pid |-> pid, t |-> t]
\* `consumer-${producerId}-${participantId}-${Date.now()}`
ConsumerIdOf(prod, pid, t) == [prod |-> prod, pid |-> pid, t |-> t]
\* `router-${roomId}-${Date.now()}`
GatewayRouterIdOf(room, t) == [src |-> "gw", room |-> room, n |-> t]
\* uuidv4(), the n-th one
SfuRouterIdOf(n) == [src |-> "sfu", room |-> "none", n |-> n]
\* config.nodeId of the SFU node
SfuNodeId == "n1"
\* `sfu-${host}-${port}` and `${host}:${port}`
NodeAddress(n) == "addr_" \o n

VARIABLES
    now,            \* Date.now()
    placement,      \* Redis hash room:routers
    redisQ,         \* Redis commands sent and not yet answered, in order
    tasks,          \* handlers in flight: tasks[c][slot]
    sock,           \* client.socket.readyState
    registered,     \* membership of SignalingServer.clients
    user,           \* client.user
    roomId,         \* client.roomId
    participantId,  \* client.participantId
    producerIds,    \* client.producerIds
    consumerIds,    \* client.consumerIds
    rooms,          \* RoomManager.rooms
    sfuNodes,       \* SFUManager.nodes
    draining,       \* a microtask of the current turn has run
    turnSrc,        \* the source of the current turn's events
    out,            \* what the last step sent, and the RoomManager calls it made
    cleanups,       \* runs of cleanupClientRoom past its guard, per membership
    leftSeen,       \* participant-left notifications delivered, per peer
    closedSeen,     \* producer-closed notifications delivered, per peer
    sent,           \* messages received so far, per connection
    workers,        \* SFU node: WorkerManager.workers
    routers,        \* SFU node: RouterManager.routers
    sfuOps,         \* SFU node: createRouter / closeRouter calls in flight
    uuids,          \* SFU node: router ids made by uuidv4 so far
    lastReturn,     \* SFU node: what createRouter returned, if the last step did
    clock,          \* time as the connection limiter's store sees it, in ticks
    limiter,        \* the connection limiter's entry of the source address
    nclients,       \* size of SignalingServer.clients, connection attempts only
    attempts,       \* the connection attempts of the source address so far
    hclock,         \* time as the node reports and the health check see it, in seconds
    report,         \* Redis keys sfu:node:<id>:heartbeat and :stats, per node
    lastCheck,      \* the node checkHealth looked at last, and its health before
    msgLimiter,     \* messageLimiter's entries, per connection id
    userLimiter,    \* globalMessageLimiter's entries, per user id
    msgLog,         \* the messages checkMessage was asked about so far
    pclock,         \* time as pingClients and the pong handler see it, in seconds
    lastPing,       \* client.lastPing
    ctime,          \* circuit breaker: time(), in seconds
    late,           \* circuit breaker: the current second is past the instant at which the entries written a whole lifetime ago expire
    cache,          \* circuit breaker: the Cache entries of one service, per key
    cbLast,         \* circuit breaker: what the last execute saw and did, the parity of the executes so far, and the
                    \* successes in the half-open circuit since it last opened
    failsInRow,     \* circuit breaker: callback failures in the closed circuit since the last success or opening
    nearStreak,     \* circuit breaker: the last of those failures of which each came less than a lifetime after the one before
    lastFailAt,     \* circuit breaker: when the last of those failures was recorded
    poolSlots,      \* SFU node: the indexes at which WorkerManager.workers holds a worker
    restarts,       \* SFU node: the slots whose handleWorkerDeath is waiting to restart the worker
    shutdownDone,   \* SFU node: WorkerManager.shutdown has returned
    closeLog        \* SFU node: the router the last closeRouter call named, and what it closed, in order

clientVars == <<sock, registered, user, roomId, participantId, producerIds, consumerIds>>
turnVars == <<draining, turnSrc>>
obsVars == <<out, cleanups, leftSeen, closedSeen>>
sfuVars == <<workers, routers, sfuOps, uuids, lastReturn>>
rateVars == <<clock, limiter, nclients, attempts>>
healthVars == <<hclock, report, lastCheck>>
msgVars == <<msgLimiter, userLimiter, msgLog>>
pingVars == <<pclock, lastPing>>
ctxVars == <<closeLog>>
poolVars == <<poolSlots, restarts, shutdownDone>>
cbVars == <<ctime, late, cache, cbLast, failsInRow, nearStreak, lastFailAt>>
vars == <<now, placement, redisQ, tasks, clientVars, rooms, sfuNodes, turnVars, obsVars, sent,
          sfuVars, rateVars, healthVars, msgVars, pingVars, ctxVars, cbVars, poolVars>>

\* ----------------------------------------------------------- observation
\* One entry of out: a message sent to a client, or (to = "RoomManager") a
\* call of a RoomManager method made by a handler of connection `by`.
OutMsg(to, ev, code, pid, prod, roster, by) ==
    [to |-> to, ev |-> ev, code |-> code, pid |-> pid, prod |-> prod,
     roster |-> roster, by |-> by]

\* SignalingServer.send: only to an open socket.
send(c, ev, code, pid, prod, roster, by) ==
    IF sock[c] = "open" THEN {OutMsg(c, ev, code, pid, prod, roster, by)} ELSE {}

\* The error goes to every client.
sendErrorToAll(c, code) == UNION {send(d, "error", code, NoPid, NoProd, {}, c) : d \in Conns}
\* SignalingServer.sendError: an error event to the client.
sendError(c, code) == send(c, "error", code, NoPid, NoProd, {}, c)

\* SignalingServer.broadcastToRoom: every registered client whose roomId is
\* `room` (whatever that value is), except the sender.
broadcastToRoom(room, except, ev, pid, prod) ==
    UNION {send(d, ev, "", pid, prod, {}, except) :
             d \in {e \in Conns : registered[e] /\ roomId[e] = room /\ e # except}}

RmCall(c, method) == {OutMsg("RoomManager", method, "", NoPid, NoProd, {}, c)}

\* ------------------------------------------------------------- RoomManager
RoomParticipant(u) == [uid |-> u, producers |-> {}, consumers |-> {}]

\* RoomManager.joinRoom, from `room.participants.set` on.
RM_addParticipant(rms, r, pid, u) ==
    [rms EXCEPT ![r].parts =
        [q \in (DOMAIN @) \cup {pid} |-> IF q = pid THEN RoomParticipant(u) ELSE @[q]]]

\* RoomManager.joinRoom, the new RoomState of `rooms.set`.
RM_newRoom(alloc) ==
    [exists |-> TRUE, sfuNode |-> alloc.node, routerId |-> alloc.routerId, parts |-> <<>>]

\* The participant stays in the roster.
RM_keepParticipant(rms, r, pid) == rms
\* RoomManager.leaveRoom up to its await: the participant is deleted.
RM_deleteParticipant(rms, r, pid) ==
    IF ~rms[r].exists THEN rms
    ELSE [rms EXCEPT ![r].parts = [q \in (DOMAIN @) \ {pid} |-> @[q]]]

RM_produce(rms, r, pid, prod) ==
    IF rms[r].exists /\ pid \in DOMAIN rms[r].parts
    THEN [rms EXCEPT ![r].parts[pid].producers = @ \cup {prod}]
    ELSE rms

RM_consume(rms, r, pid, cons) ==
    IF rms[r].exists /\ pid \in DOMAIN rms[r].parts
    THEN [rms EXCEPT ![r].parts[pid].consumers = @ \cup {cons}]
    ELSE rms

RM_closeProducer(rms, r, prod) ==
    IF ~rms[r].exists THEN rms
    ELSE [rms EXCEPT ![r].parts = [q \in DOMAIN @ |-> [@[q] EXCEPT !.producers = @ \ {prod}]]]

RosterOf(r) == IF rooms[r].exists THEN DOMAIN rooms[r].parts ELSE {}
ProducersIn(r) == UNION {rooms[r].parts[q].producers : q \in RosterOf(r)}
ConsumersIn(r) == UNION {rooms[r].parts[q].consumers : q \in RosterOf(r)}

\* ------------------------------------------------------------ client input
Msg(event) ==
    [event |-> event, token |-> "none", org |-> "none", room |-> "none",
     kind |-> "none", prod |-> NoProd, caps |-> {}]

Idle == [pc |-> "idle", w |-> "none", m |-> Msg("none"), loc |-> [x |-> 0]]

\* Producer ids a client can name: those of its room's roster and its own.
KnownProducers(c) ==
    producerIds[c] \cup (IF roomId[c] \in Rooms THEN ProducersIn(roomId[c]) ELSE {})

InFlight(c, event) == {s \in MsgSlots : tasks[c][s].pc # "idle" /\ tasks[c][s].m.event = event}

\* Whether connection c has messages left of the max it sends in a run.
HasBudget(c, max) == sent[c] < (IF c = "c1" THEN max ELSE max - 1)

\* A client's own credentials, as a well-behaved client presents them.
UserOf(c) == IF c = "c1" THEN "u1" ELSE "u2"
Login(c) == [Msg("authenticate") EXCEPT !.token = UserOf(c), !.org = "org1"]

ProduceMsgs(c) ==
    {[Msg("produce") EXCEPT !.kind = k] :
        k \in {k2 \in Kinds :
                Cardinality(producerIds[c]) + Cardinality(InFlight(c, "produce")) < MaxProducers}}
ConsumeMsgs(c) ==
    {[Msg("consume") EXCEPT !.prod = p, !.caps = cp] :
        p \in {p2 \in KnownProducers(c) :
                Cardinality(consumerIds[c]) + Cardinality(InFlight(c, "consume")) < MaxProducers},
        cp \in CapsChoices}
CloseProducerMsgs(c) == {[Msg("close-producer") EXCEPT !.prod = p] : p \in KnownProducers(c)}
JoinMsgs == {[Msg("join-room") EXCEPT !.room = r] : r \in Rooms}

\* Any message at any time, whatever the state of the connection.
AnyMsgs(c) ==
    IF ~HasBudget(c, MaxAnyMsgs) THEN {} ELSE
    {[Msg("authenticate") EXCEPT !.token = t, !.org = o] :
        t \in {UserOf(c), "bad"}, o \in {"org1", "org2"}}
    \cup JoinMsgs \cup {Msg("leave-room"), Msg("unknown")}
    \cup ProduceMsgs(c) \cup ConsumeMsgs(c) \cup CloseProducerMsgs(c)
    \cup {[Msg("get-router-rtp-capabilities") EXCEPT !.room = r] : r \in Rooms}

\* A client that holds the tokens of both users: it authenticates at any
\* time with either of them or with a bad one, joins and leaves.
IdentityMsgs(c) ==
    IF ~HasBudget(c, MaxIdentityMsgs) THEN {} ELSE
    {[Msg("authenticate") EXCEPT !.token = t, !.org = "org1"] : t \in Users \cup {"bad"}}
    \cup JoinMsgs \cup {Msg("leave-room")}

\* A client that logs in first and then joins and leaves as it likes,
\* without waiting for the answers.
SessionMsgs(c) ==
    IF ~HasBudget(c, MaxSessionMsgs) THEN {}
    ELSE IF user[c] = "none"
    THEN IF InFlight(c, "authenticate") = {} THEN {Login(c)} ELSE {}
    ELSE JoinMsgs \cup {Msg("leave-room")}

\* A client that logs in, joins a room, and then uses media and leaves as it
\* likes, without waiting for the answers.
MediaMsgs(c) ==
    IF ~HasBudget(c, MaxMediaMsgs) THEN {}
    ELSE IF user[c] = "none"
    THEN IF InFlight(c, "authenticate") = {} THEN {Login(c)} ELSE {}
    ELSE IF roomId[c] = "none"
    THEN IF InFlight(c, "join-room") = {} THEN JoinMsgs ELSE {}
    ELSE {Msg("leave-room")} \cup ProduceMsgs(c) \cup ConsumeMsgs(c) \cup CloseProducerMsgs(c)

\* AuthService.verifyOrganizationMembership, as the auth service answers it.
IsMember(u, org) == org = "org1"

\* -------------------------------------------------------------- event loop
IsReady(t) == t.pc # "idle" /\ t.w = "ready"
AnyReady(tk) == \E c \in Conns, s \in Slots : IsReady(tk[c][s])

\* An event of source src may be taken: no microtask of the turn has run,
\* and the turn's pending microtasks come from events of the same source.
MayTake(src) == ~draining /\ (~AnyReady(tasks) \/ turnSrc = src)
\* An event that opens a turn of its own.
MayTakeAlone == ~AnyReady(tasks)

AfterEvent(src) ==
    /\ draining' = FALSE
    /\ turnSrc' = IF AnyReady(tasks') THEN src ELSE "none"

AfterMicrotask ==
    /\ draining' = AnyReady(tasks')
    /\ turnSrc' = IF AnyReady(tasks') THEN turnSrc ELSE "none"

Task(pc, w, m, loc) == [pc |-> pc, w |-> w, m |-> m, loc |-> loc]
NoLoc == [x |-> 0]
\* Connection c1 pipelines its messages, the others send one at a time.
SlotsOf(c) == IF c = "c1" THEN MsgSlots ELSE {1}
FreeSlots(c) == {s \in SlotsOf(c) : tasks[c][s].pc = "idle"}
FirstFree(c) == CHOOSE s \in FreeSlots(c) : \A s2 \in FreeSlots(c) : s <= s2
QEntry(c, s) == [c |-> c, s |-> s]

\* WorkerManager.initialize: numWorkers workers, each with no router.
InitWorkers ==
    [i \in 1..NumWorkers |-> [pid |-> 0, closed |-> FALSE, routerCount |-> 0, usage |-> 0]]

\* SFUManager.initialize: every configured node healthy, load 0.
InitNodes == [n \in NodeIds |-> [isHealthy |-> TRUE, load |-> 0]]

\* The gateway with its clients connected (handleConnection accepted each)
\* and nothing else done.
Init ==
    /\ now = 0
    /\ placement = [r \in Rooms |-> NoPlacement]
    /\ redisQ = <<>>
    /\ tasks = [c \in Conns |-> [s \in Slots |-> Idle]]
    /\ sock = [c \in Conns |-> "open"]
    /\ registered = [c \in Conns |-> TRUE]
    /\ user = [c \in Conns |-> "none"]
    /\ roomId = [c \in Conns |-> "none"]
    /\ participantId = [c \in Conns |-> NoPid]
    /\ producerIds = [c \in Conns |-> {}]
    /\ consumerIds = [c \in Conns |-> {}]
    /\ rooms = [r \in Rooms |-> NoRoom]
    /\ sfuNodes = InitNodes
    /\ draining = FALSE
    /\ turnSrc = "none"
    /\ out = {}
    /\ cleanups = [c \in Conns |-> 0]
    /\ leftSeen = [c \in Conns |-> {}]
    /\ closedSeen = [c \in Conns |-> {}]
    /\ sent = [c \in Conns |-> 0]
    /\ workers = InitWorkers
    /\ routers = <<>>
    /\ sfuOps = {}
    /\ uuids = 0
    /\ lastReturn = NoReturn
    /\ closeLog = NoClose
    /\ poolSlots = 1..NumWorkers
    /\ restarts = {}
    /\ shutdownDone = FALSE
    /\ ctime = BreakerStart
    /\ late = FALSE
    /\ cache = [k \in CacheKeys |-> NoItem]
    /\ cbLast = NoExecute
    /\ failsInRow = 0
    /\ nearStreak = 0
    /\ lastFailAt = 0
    /\ clock = 0
    /\ limiter = NoEntry
    /\ nclients = 0
    /\ attempts = <<>>
    /\ hclock = 0
    /\ report = [n \in NodeIds |-> NoReport]
    /\ lastCheck = NoCheck
    /\ msgLimiter = [c \in Conns |-> NoEntry]
    /\ userLimiter = [u \in Users |-> NoEntry]
    /\ msgLog = <<>>
    /\ pclock = 0
    /\ lastPing = [c \in Conns |-> 0]

\* Date.now() advances.
Tick ==
    /\ now < MaxTime
    /\ now' = now + 1
    /\ UNCHANGED <<poolVars, cbVars, ctxVars, pingVars, msgVars, placement, redisQ, tasks, clientVars, rooms, sfuNodes, turnVars, obsVars, sent,
                   healthVars, sfuVars, rateVars>>

\* socket.on('message') up to `await this.rateLimiter.checkMessage(clientId,
\* client.user?.id)`: the per-user limiter is a Redis command, sent only for
\* an authenticated client; the per-connection limiter is in memory.
Receive(c, m) ==
    /\ sock[c] = "open"
    /\ FreeSlots(c) # {}
    /\ MayTake("sock_" \o c)
    /\ LET s == FirstFree(c)
       IN /\ tasks' = [tasks EXCEPT ![c][s] =
                          Task("rl", IF user[c] # "none" THEN "redis" ELSE "ready", m, NoLoc)]
          /\ redisQ' = IF user[c] # "none" THEN Append(redisQ, QEntry(c, s)) ELSE redisQ
    /\ out' = {}
    /\ AfterEvent("sock_" \o c)
    /\ sent' = [sent EXCEPT ![c] = @ + 1]
    /\ UNCHANGED <<poolVars, cbVars, ctxVars, pingVars, msgVars, now, healthVars, sfuVars, rateVars, placement, clientVars, rooms, sfuNodes, cleanups, leftSeen, closedSeen>>

\* The Redis connection answers its oldest command: the command takes
\* effect on the store and its result reaches the waiting handler.
RedisReply ==
    /\ redisQ # <<>>
    /\ MayTake("redis")
    /\ LET c == Head(redisQ).c
           s == Head(redisQ).s
           t == tasks[c][s]
       IN /\ t.pc # "idle" /\ t.w = "redis"
          /\ placement' =
                IF t.pc = "alloc_set" THEN [placement EXCEPT ![t.m.room] = t.loc.value]
                ELSE IF t.pc = "cl_release" THEN [placement EXCEPT ![t.loc.room] = NoPlacement]
                ELSE placement
          /\ tasks' = [tasks EXCEPT ![c][s] =
                          IF t.pc = "alloc_get"
                          THEN [t EXCEPT !.w = "ready",
                                         !.loc = [existing |-> placement[t.m.room], uid |-> t.loc.uid]]
                          ELSE [t EXCEPT !.w = "ready"]]
    /\ redisQ' = Tail(redisQ)
    /\ out' = {}
    /\ AfterEvent("redis")
    /\ UNCHANGED <<poolVars, cbVars, ctxVars, pingVars, msgVars, now, sent, healthVars, rateVars, sfuVars, clientVars, rooms, sfuNodes, cleanups, leftSeen, closedSeen>>

\* The auth service answers verifyToken and verifyOrganizationMembership.
AuthReply(c, s) ==
    /\ tasks[c][s].pc = "auth" /\ tasks[c][s].w = "auth"
    /\ MayTakeAlone
    /\ tasks' = [tasks EXCEPT ![c][s].w = "ready"]
    /\ out' = {}
    /\ AfterEvent("auth")
    /\ UNCHANGED <<poolVars, cbVars, ctxVars, pingVars, msgVars, now, sent, healthVars, rateVars, sfuVars, placement, redisQ, clientVars, rooms, sfuNodes, cleanups, leftSeen, closedSeen>>

\* ------------------------------------------------------- message handlers
\* The handler of slot s of connection c resumes at pc.
Resumes(c, s, pc) == tasks[c][s].pc = pc /\ tasks[c][s].w = "ready"
\* ... and it is the handler of a message `event` that handleMessage dispatches.
Dispatches(c, s, event) == Resumes(c, s, "rl") /\ tasks[c][s].m.event = event

EndTask(c, s) == tasks' = [tasks EXCEPT ![c][s] = Idle]
Yield(c, s, pc, loc) == tasks' = [tasks EXCEPT ![c][s] = Task(pc, "ready", tasks[c][s].m, loc)]
AwaitRedis(c, s, pc, loc) ==
    /\ tasks' = [tasks EXCEPT ![c][s] = Task(pc, "redis", tasks[c][s].m, loc)]
    /\ redisQ' = Append(redisQ, QEntry(c, s))

\* checkMessage rejected the message: a limit is exceeded (the counters
\* themselves are RateLimiterService's, not tracked per message here).
RateLimited(c, s) ==
    /\ Resumes(c, s, "rl")
    /\ EndTask(c, s)
    /\ out' = sendError(c, "RATE_LIMIT_EXCEEDED")
    /\ AfterMicrotask
    /\ UNCHANGED <<poolVars, cbVars, ctxVars, pingVars, msgVars, now, sent, healthVars, rateVars, sfuVars, placement, redisQ, clientVars, rooms, sfuNodes, cleanups, leftSeen, closedSeen>>

\* default branch of handleMessage.
HandleUnknown(c, s) ==
    /\ Dispatches(c, s, "unknown")
    /\ EndTask(c, s)
    /\ out' = sendError(c, "")
    /\ AfterMicrotask
    /\ UNCHANGED <<poolVars, cbVars, ctxVars, pingVars, msgVars, now, sent, healthVars, rateVars, sfuVars, placement, redisQ, clientVars, rooms, sfuNodes, cleanups, leftSeen, closedSeen>>

\* handleAuthenticate up to `await this.authService.verifyToken`.
HandleAuthenticate(c, s) ==
    /\ Dispatches(c, s, "authenticate")
    /\ tasks' = [tasks EXCEPT ![c][s] = Task("auth", "auth", tasks[c][s].m, NoLoc)]
    /\ out' = {}
    /\ AfterMicrotask
    /\ UNCHANGED <<poolVars, cbVars, ctxVars, pingVars, msgVars, now, sent, healthVars, rateVars, sfuVars, placement, redisQ, clientVars, rooms, sfuNodes, cleanups, leftSeen, closedSeen>>

\* The token alone decides.
AuthOkTokenOnly(m) == m.token \in Users
\* handleAuthenticate, the way to `client.user = user`: verifyToken did not
\* throw and verifyOrganizationMembership answered true.
AuthOk(m) == m.token \in Users /\ IsMember(m.token, m.org)

\* handleAuthenticate after the auth service answered: verifyToken throws on
\* a bad token; a non-member is refused; otherwise client.user is set.
AuthenticateDone(c, s) ==
    /\ Resumes(c, s, "auth")
    /\ LET m == tasks[c][s].m
           ok == AuthOk(m)
       IN /\ user' = IF ok THEN [user EXCEPT ![c] = m.token] ELSE user
          /\ out' = IF ok THEN send(c, "authenticated", "", NoPid, NoProd, {}, c)
                    ELSE sendError(c, "AUTH_FAILED")
    /\ EndTask(c, s)
    /\ AfterMicrotask
    /\ UNCHANGED <<poolVars, cbVars, ctxVars, pingVars, msgVars, now, sent, healthVars, rateVars, sfuVars, placement, redisQ, sock, registered, roomId, participantId,
                   producerIds, consumerIds, rooms, sfuNodes, cleanups, leftSeen, closedSeen>>

\* RoomManager.joinRoom from `const participantId = ...` to its return: the
\* roster entry of a new participant id is a new participant.
JoinRoomAdd(rms, r, u) == RM_addParticipant(rms, r, ParticipantIdOf(u, now), u)

\* What peers were told about a participant or a producer that is created
\* again under the same id concerns its earlier holder.
ForgetPid(seen, pid) == [d \in Conns |-> seen[d] \ {pid}]

\* handleJoinRoom up to the first await of RoomManager.joinRoom: refused
\* without a user; with the room in RoomManager.rooms the participant is
\* added at once; without it allocateRoom asks Redis for the placement.
HandleJoinRoom(c, s) ==
    /\ Dispatches(c, s, "join-room")
    /\ LET r == tasks[c][s].m.room
       IN IF user[c] = "none"
          THEN /\ EndTask(c, s)
               /\ out' = sendError(c, "NOT_AUTHENTICATED")
               /\ UNCHANGED <<redisQ, rooms, leftSeen>>
          ELSE IF rooms[r].exists
          THEN /\ rooms' = JoinRoomAdd(rooms, r, user[c])
               /\ Yield(c, s, "join_ret", [pid |-> ParticipantIdOf(user[c], now)])
               /\ leftSeen' = ForgetPid(leftSeen, ParticipantIdOf(user[c], now))
               /\ out' = RmCall(c, "joinRoom")
               /\ UNCHANGED redisQ
          ELSE /\ AwaitRedis(c, s, "alloc_get", [existing |-> NoPlacement, uid |-> user[c]])
               /\ out' = RmCall(c, "joinRoom")
               /\ UNCHANGED <<rooms, leftSeen>>
    /\ AfterMicrotask
    /\ UNCHANGED <<poolVars, cbVars, ctxVars, pingVars, msgVars, now, sent, healthVars, rateVars, sfuVars, placement, clientVars, sfuNodes, cleanups, closedSeen>>

\* The nodes in configuration order, and the healthy ones.
NodeOrder == <<"n1", "n2">>
HealthyNodes == {n \in NodeIds : sfuNodes[n].isHealthy}
\* The first configured node, whatever its health.
getFirstNode == NodeOrder[1]
\* SFUManager.getBestNode: the healthy nodes sorted by load (a stable sort of
\* the nodes in configuration order), the first of them.
getBestNode ==
    IF HealthyNodes = {} THEN "none"
    ELSE LET i == CHOOSE i \in 1..Len(NodeOrder) :
                    /\ NodeOrder[i] \in HealthyNodes
                    /\ \A j \in 1..Len(NodeOrder) :
                          NodeOrder[j] \in HealthyNodes =>
                            \/ sfuNodes[NodeOrder[i]].load < sfuNodes[NodeOrder[j]].load
                            \/ (sfuNodes[NodeOrder[i]].load = sfuNodes[NodeOrder[j]].load /\ i <= j)
         IN NodeOrder[i]

\* SFUManager.allocateRoom, `if (existing)`: whether the placement read from
\* Redis is reused.
ReusesExisting(existing) == existing # NoPlacement

\* RoomManager.joinRoom after allocateRoom returned: a new RoomState is put
\* under the room id, then the participant is added to it.
JoinRoomCreate(rms, r, alloc, u) ==
    RM_addParticipant([rms EXCEPT ![r] = RM_newRoom(alloc)], r, ParticipantIdOf(u, now), u)

\* SFUManager.allocateRoom after getRoomRouter answered.  An existing
\* placement is returned to joinRoom, which creates the room and adds the
\* participant.  Otherwise the best node is taken, a router id is made from
\* the clock and the placement is sent to Redis.
AllocateRoom(c, s) ==
    /\ Resumes(c, s, "alloc_get")
    /\ LET t == tasks[c][s]
           r == t.m.room
           existing == t.loc.existing
           node == getBestNode
           routerId == GatewayRouterIdOf(r, now)
       IN IF ReusesExisting(existing)
          THEN /\ rooms' = JoinRoomCreate(rooms, r,
                              [node |-> existing.nodeId, routerId |-> existing.routerId], t.loc.uid)
               /\ leftSeen' = ForgetPid(leftSeen, ParticipantIdOf(t.loc.uid, now))
               /\ Yield(c, s, "join_ret", [pid |-> ParticipantIdOf(t.loc.uid, now)])
               /\ UNCHANGED redisQ
          ELSE IF node = "none"
          THEN /\ EndTask(c, s)
               /\ UNCHANGED <<redisQ, rooms, leftSeen>>
          ELSE /\ AwaitRedis(c, s, "alloc_set",
                             [value |-> [nodeId |-> node, routerId |-> routerId],
                              alloc |-> [node |-> NodeAddress(node), routerId |-> routerId],
                              uid |-> t.loc.uid])
               /\ UNCHANGED <<rooms, leftSeen>>
    /\ out' = IF ~ReusesExisting(tasks[c][s].loc.existing) /\ getBestNode = "none"
              THEN sendError(c, "JOIN_FAILED") ELSE {}
    /\ AfterMicrotask
    /\ UNCHANGED <<poolVars, cbVars, ctxVars, pingVars, msgVars, now, sent, healthVars, rateVars, sfuVars, placement, clientVars, sfuNodes, cleanups, closedSeen>>

\* SFUManager.allocateRoom after setRoomRouter answered, and joinRoom after
\* it: the room is created and the participant added.
AllocateRoomStored(c, s) ==
    /\ Resumes(c, s, "alloc_set")
    /\ LET t == tasks[c][s]
       IN /\ rooms' = JoinRoomCreate(rooms, t.m.room, t.loc.alloc, t.loc.uid)
          /\ leftSeen' = ForgetPid(leftSeen, ParticipantIdOf(t.loc.uid, now))
          /\ Yield(c, s, "join_ret", [pid |-> ParticipantIdOf(t.loc.uid, now)])
    /\ out' = {}
    /\ AfterMicrotask
    /\ UNCHANGED <<poolVars, cbVars, ctxVars, pingVars, msgVars, now, sent, healthVars, rateVars, sfuVars, placement, redisQ, clientVars, sfuNodes, cleanups, closedSeen>>

\* getParticipants, the joiner included.
AllParticipants(r, pid) == RosterOf(r)
\* getParticipants, less the joiner itself.
OtherParticipants(r, pid) == RosterOf(r) \ {pid}

\* handleJoinRoom after joinRoom returned: the client record takes the room
\* and the participant id, and getParticipants reads the roster.
JoinSetClient(c, s) ==
    /\ Resumes(c, s, "join_ret")
    /\ LET t == tasks[c][s]
       IN /\ roomId' = [roomId EXCEPT ![c] = t.m.room]
          /\ participantId' = [participantId EXCEPT ![c] = t.loc.pid]
          /\ Yield(c, s, "join_list",
                   [pid |-> t.loc.pid, snap |-> OtherParticipants(t.m.room, t.loc.pid)])
    /\ cleanups' = [cleanups EXCEPT ![c] = 0]
    /\ out' = RmCall(c, "getParticipants")
    /\ AfterMicrotask
    /\ UNCHANGED <<poolVars, cbVars, ctxVars, pingVars, msgVars, now, sent, healthVars, rateVars, sfuVars, placement, redisQ, sock, registered, user, producerIds, consumerIds,
                   rooms, sfuNodes, leftSeen, closedSeen>>

\* handleJoinRoom, the reply and the announcement to the room.
JoinReply(c, s) ==
    /\ Resumes(c, s, "join_list")
    /\ LET t == tasks[c][s]
       IN out' = send(c, "room-joined", "", t.loc.pid, NoProd, t.loc.snap, c)
                 \cup broadcastToRoom(t.m.room, c, "participant-joined", t.loc.pid, NoProd)
    /\ EndTask(c, s)
    /\ AfterMicrotask
    /\ UNCHANGED <<poolVars, cbVars, ctxVars, pingVars, msgVars, now, sent, healthVars, rateVars, sfuVars, placement, redisQ, clientVars, rooms, sfuNodes, cleanups, leftSeen, closedSeen>>

\* ------------------------------------------------------------------ leave
CleanupLoc(r, pid, visited) == [room |-> r, pid |-> pid, visited |-> visited]

\* RoomManager.leaveRoom, `if (room.participants.size === 0)`: whether the
\* room is released after the participant was deleted.
RoomIsEmpty(rms, r) == rms[r].exists /\ DOMAIN rms[r].parts = {}

\* cleanupClientRoom from the head of its producer loop to its next await.
\* With a producer of the client not yet visited, closeProducer is called
\* for it.  Otherwise leaveRoom is called: it deletes the participant and,
\* with the roster empty, sends the release of the placement to Redis.
cleanupClientRoom(c, s, r, pid, visited) ==
    LET todo == producerIds[c] \ visited
        left == RM_deleteParticipant(rooms, r, pid)
    IN IF todo # {}
       THEN \E p \in todo :
               /\ rooms' = RM_closeProducer(rooms, r, p)
               /\ Yield(c, s, "cl_prod", CleanupLoc(r, pid, visited \cup {p}))
               /\ out' = RmCall(c, "closeProducer")
               /\ UNCHANGED redisQ
       ELSE /\ rooms' = left
            /\ out' = RmCall(c, "leaveRoom")
            /\ IF RoomIsEmpty(left, r)
               THEN AwaitRedis(c, s, "cl_release", CleanupLoc(r, pid, visited))
               ELSE Yield(c, s, "cl_left", CleanupLoc(r, pid, visited)) /\ UNCHANGED redisQ

\* cleanupClientRoom, its guard.
InRoom(c) == roomId[c] # "none" /\ participantId[c] # NoPid

\* handleLeaveRoom: nothing for a client that is in no room, else
\* cleanupClientRoom.
HandleLeaveRoom(c, s) ==
    /\ Dispatches(c, s, "leave-room")
    /\ IF InRoom(c)
       THEN /\ cleanupClientRoom(c, s, roomId[c], participantId[c], {})
            /\ cleanups' = [cleanups EXCEPT ![c] = @ + 1]
       ELSE /\ EndTask(c, s)
            /\ out' = {}
            /\ UNCHANGED <<redisQ, rooms, cleanups>>
    /\ AfterMicrotask
    /\ UNCHANGED <<poolVars, cbVars, ctxVars, pingVars, msgVars, now, sent, healthVars, rateVars, sfuVars, placement, clientVars, sfuNodes, leftSeen, closedSeen>>

\* socket.on('close'): the socket is closed and cleanupClient starts; a
\* client in no room goes straight to the reset of its rate limiters.
OnClose(c) ==
    /\ MayTakeAlone
    /\ sock' = [sock EXCEPT ![c] = "closed"]
    /\ IF InRoom(c)
       THEN /\ cleanupClientRoom(c, CloseSlot, roomId[c], participantId[c], {})
            /\ cleanups' = [cleanups EXCEPT ![c] = @ + 1]
       ELSE /\ AwaitRedis(c, CloseSlot, "reset", NoLoc)
            /\ out' = {}
            /\ UNCHANGED <<rooms, cleanups>>
    /\ AfterEvent("close")
    /\ UNCHANGED <<poolVars, cbVars, ctxVars, pingVars, msgVars, now, sent, healthVars, rateVars, sfuVars, placement, registered, user, roomId, participantId, producerIds,
                   consumerIds, sfuNodes, leftSeen, closedSeen>>

\* The client closes its socket, and the 'close' event is handled.
SocketClose(c) == sock[c] = "open" /\ OnClose(c)

\* The 'close' event of a socket that pingClients terminated is handled.
TerminatedClose(c) == sock[c] = "terminated" /\ OnClose(c)

\* cleanupClientRoom resumes in its producer loop.
CleanupLoop(c, s) ==
    /\ Resumes(c, s, "cl_prod")
    /\ LET l == tasks[c][s].loc IN cleanupClientRoom(c, s, l.room, l.pid, l.visited)
    /\ AfterMicrotask
    /\ UNCHANGED <<poolVars, cbVars, ctxVars, pingVars, msgVars, now, sent, healthVars, rateVars, sfuVars, placement, clientVars, sfuNodes, cleanups, leftSeen, closedSeen>>

\* RoomManager.leaveRoom after releaseRoom answered: `this.rooms.delete`.
LeaveRoomDelete(c, s) ==
    /\ Resumes(c, s, "cl_release")
    /\ rooms' = [rooms EXCEPT ![tasks[c][s].loc.room] = NoRoom]
    /\ Yield(c, s, "cl_left", tasks[c][s].loc)
    /\ out' = {}
    /\ AfterMicrotask
    /\ UNCHANGED <<poolVars, cbVars, ctxVars, pingVars, msgVars, now, sent, healthVars, rateVars, sfuVars, placement, redisQ, clientVars, sfuNodes, cleanups, leftSeen, closedSeen>>

\* The peers a broadcast to `room` reaches.
Reached(room, except) ==
    {d \in Conns : registered[d] /\ roomId[d] = room /\ d # except /\ sock[d] = "open"}

\* cleanupClientRoom after leaveRoom returned: participant-left to the room.
CleanupBroadcast(c, s) ==
    /\ Resumes(c, s, "cl_left")
    /\ LET l == tasks[c][s].loc
       IN /\ out' = broadcastToRoom(l.room, c, "participant-left", l.pid, NoProd)
          /\ leftSeen' = [d \in Conns |->
                            IF d \in Reached(l.room, c) THEN leftSeen[d] \cup {l.pid}
                            ELSE leftSeen[d]]
    /\ Yield(c, s, "cl_clear", tasks[c][s].loc)
    /\ AfterMicrotask
    /\ UNCHANGED <<poolVars, cbVars, ctxVars, pingVars, msgVars, now, sent, healthVars, rateVars, sfuVars, placement, redisQ, clientVars, rooms, sfuNodes, cleanups, closedSeen>>

\* cleanupClientRoom, its end: the client's room state is cleared.  The
\* close handler goes on to reset the rate limiters (Redis).
CleanupClear(c, s) ==
    /\ Resumes(c, s, "cl_clear")
    /\ roomId' = [roomId EXCEPT ![c] = "none"]
    /\ participantId' = [participantId EXCEPT ![c] = NoPid]
    /\ producerIds' = [producerIds EXCEPT ![c] = {}]
    /\ consumerIds' = [consumerIds EXCEPT ![c] = {}]
    /\ IF s = CloseSlot
       THEN AwaitRedis(c, s, "reset", NoLoc)
       ELSE EndTask(c, s) /\ UNCHANGED redisQ
    /\ out' = {}
    /\ AfterMicrotask
    /\ UNCHANGED <<poolVars, cbVars, ctxVars, pingVars, msgVars, now, sent, healthVars, rateVars, sfuVars, placement, sock, registered, user, rooms, sfuNodes,
                   cleanups, leftSeen, closedSeen>>

\* cleanupClient, `if (client.user) await this.rateLimiter.reset(client.user.id)`:
\* reset deletes the key from messageLimiter and from globalMessageLimiter.
ResetUser(lim, u) == IF u = "none" THEN lim ELSE [lim EXCEPT ![u] = NoEntry]

\* cleanupClient after cleanupClientRoom, and the end of socket.on('close'):
\* the rate limiters are reset for the client id and, with a user, for the
\* user id; then `this.clients.delete(clientId)`.
CloseFinish(c) ==
    /\ Resumes(c, CloseSlot, "reset")
    /\ msgLimiter' = [msgLimiter EXCEPT ![c] = NoEntry]
    /\ userLimiter' = ResetUser(userLimiter, user[c])
    /\ registered' = [registered EXCEPT ![c] = FALSE]
    /\ EndTask(c, CloseSlot)
    /\ out' = {}
    /\ AfterMicrotask
    /\ UNCHANGED <<poolVars, cbVars, ctxVars, pingVars, msgLog, now, sent, healthVars, rateVars, sfuVars, placement, redisQ, sock, user, roomId, participantId, producerIds,
                   consumerIds, rooms, sfuNodes, cleanups, leftSeen, closedSeen>>

\* ------------------------------------------------------------------ media
\* What peers were told about a producer id concerns its earlier holder.
ForgetProd(seen, prod) == [d \in Conns |-> seen[d] \ {prod}]

\* handleProduce up to `await this.roomManager.produce`: NOT_IN_ROOM for a
\* client in no room; else RoomManager.produce makes the producer id and
\* records it on the participant if the roster still has it.
HandleProduce(c, s) ==
    /\ Dispatches(c, s, "produce")
    /\ LET prod == ProducerIdOf(tasks[c][s].m.kind, participantId[c], now)
       IN IF InRoom(c)
          THEN /\ rooms' = RM_produce(rooms, roomId[c], participantId[c], prod)
               /\ closedSeen' = ForgetProd(closedSeen, prod)
               /\ Yield(c, s, "prod_ret", [prod |-> prod])
               /\ out' = RmCall(c, "produce")
          ELSE /\ EndTask(c, s)
               /\ out' = sendError(c, "NOT_IN_ROOM")
               /\ UNCHANGED <<rooms, closedSeen>>
    /\ AfterMicrotask
    /\ UNCHANGED <<poolVars, cbVars, ctxVars, pingVars, msgVars, now, sent, healthVars, rateVars, sfuVars, placement, redisQ, clientVars, sfuNodes, cleanups, leftSeen>>

\* handleProduce after produce returned: the id joins client.producerIds,
\* `produced` goes to the client and new-producer to client.roomId as it is
\* now.
ProduceDone(c, s) ==
    /\ Resumes(c, s, "prod_ret")
    /\ LET prod == tasks[c][s].loc.prod
       IN /\ producerIds' = [producerIds EXCEPT ![c] = @ \cup {prod}]
          /\ out' = send(c, "produced", "", NoPid, prod, {}, c)
                    \cup broadcastToRoom(roomId[c], c, "new-producer", participantId[c], prod)
    /\ EndTask(c, s)
    /\ AfterMicrotask
    /\ UNCHANGED <<poolVars, cbVars, ctxVars, pingVars, msgVars, now, sent, healthVars, rateVars, sfuVars, placement, redisQ, sock, registered, user, roomId, participantId,
                   consumerIds, rooms, sfuNodes, cleanups, leftSeen, closedSeen>>

\* mediasoup's router.canConsume, as far as the model tells media apart: the
\* consumer's capabilities cover the producer's kind.
canConsume(prod, caps) == prod.kind \in caps

\* RoomManager.consume: whether it returns null for the request.
ConsumeReturnsNull(prod, caps) == FALSE

\* handleConsume up to `await this.roomManager.consume`.
HandleConsume(c, s) ==
    /\ Dispatches(c, s, "consume")
    /\ LET m == tasks[c][s].m
           cons == ConsumerIdOf(m.prod, participantId[c], now)
       IN IF InRoom(c)
          THEN /\ rooms' = RM_consume(rooms, roomId[c], participantId[c], cons)
               /\ Yield(c, s, "cons_ret",
                        [cons |-> cons, null |-> ConsumeReturnsNull(m.prod, m.caps)])
               /\ out' = RmCall(c, "consume")
          ELSE /\ EndTask(c, s)
               /\ out' = sendError(c, "NOT_IN_ROOM")
               /\ UNCHANGED rooms
    /\ AfterMicrotask
    /\ UNCHANGED <<poolVars, cbVars, ctxVars, pingVars, msgVars, now, sent, healthVars, rateVars, sfuVars, placement, redisQ, clientVars, sfuNodes, cleanups, leftSeen, closedSeen>>

\* handleConsume after consume returned: CONSUME_ERROR for null, else the id
\* joins client.consumerIds and consumer-created goes to the client.
ConsumeDone(c, s) ==
    /\ Resumes(c, s, "cons_ret")
    /\ LET l == tasks[c][s].loc
       IN IF l.null
          THEN /\ out' = sendError(c, "CONSUME_ERROR")
               /\ UNCHANGED consumerIds
          ELSE /\ consumerIds' = [consumerIds EXCEPT ![c] = @ \cup {l.cons}]
               /\ out' = send(c, "consumer-created", "", NoPid, tasks[c][s].m.prod, {}, c)
    /\ EndTask(c, s)
    /\ AfterMicrotask
    /\ UNCHANGED <<poolVars, cbVars, ctxVars, pingVars, msgVars, now, sent, healthVars, rateVars, sfuVars, placement, redisQ, sock, registered, user, roomId, participantId,
                   producerIds, rooms, sfuNodes, cleanups, leftSeen, closedSeen>>

\* handleCloseProducer up to `await this.roomManager.closeProducer`: nothing
\* for a client without a room id.
HandleCloseProducer(c, s) ==
    /\ Dispatches(c, s, "close-producer")
    /\ IF roomId[c] # "none"
       THEN /\ rooms' = RM_closeProducer(rooms, roomId[c], tasks[c][s].m.prod)
            /\ Yield(c, s, "cp_ret", NoLoc)
            /\ out' = RmCall(c, "closeProducer")
       ELSE /\ EndTask(c, s)
            /\ out' = {}
            /\ UNCHANGED rooms
    /\ AfterMicrotask
    /\ UNCHANGED <<poolVars, cbVars, ctxVars, pingVars, msgVars, now, sent, healthVars, rateVars, sfuVars, placement, redisQ, clientVars, sfuNodes, cleanups, leftSeen, closedSeen>>

\* handleCloseProducer after closeProducer returned: the id leaves
\* client.producerIds and producer-closed goes to client.roomId as it is now.
CloseProducerDone(c, s) ==
    /\ Resumes(c, s, "cp_ret")
    /\ LET prod == tasks[c][s].m.prod
       IN /\ producerIds' = [producerIds EXCEPT ![c] = @ \ {prod}]
          /\ out' = broadcastToRoom(roomId[c], c, "producer-closed", NoPid, prod)
          /\ closedSeen' = [d \in Conns |->
                              IF d \in Reached(roomId[c], c) THEN closedSeen[d] \cup {prod}
                              ELSE closedSeen[d]]
    /\ EndTask(c, s)
    /\ AfterMicrotask
    /\ UNCHANGED <<poolVars, cbVars, ctxVars, pingVars, msgVars, now, sent, healthVars, rateVars, sfuVars, placement, redisQ, sock, registered, user, roomId, participantId,
                   consumerIds, rooms, sfuNodes, cleanups, leftSeen>>

\* handleGetRouterRtpCapabilities: RoomManager.getRouterRtpCapabilities is
\* called for whatever client asks, and its answer sent.
HandleGetRouterRtpCapabilities(c, s) ==
    /\ Dispatches(c, s, "get-router-rtp-capabilities")
    /\ out' = RmCall(c, "getRouterRtpCapabilities")
              \cup send(c, "router-rtp-capabilities", "", NoPid, NoProd, {}, c)
    /\ EndTask(c, s)
    /\ AfterMicrotask
    /\ UNCHANGED <<poolVars, cbVars, ctxVars, pingVars, msgVars, now, sent, healthVars, rateVars, sfuVars, placement, redisQ, clientVars, rooms, sfuNodes, cleanups, leftSeen, closedSeen>>

\* ---------------------------------------------------------------- SFU node
\* A mediasoup Worker object: the slot it was created for and its process.
WorkerRef(i) == [index |-> i, pid |-> workers[i].pid]
\* WorkerManager: `this.workers.find((w) => w.worker === worker)` finds it.
IsCurrent(w) == workers[w.index].pid = w.pid
\* worker.closed of a Worker object.
WorkerClosed(w) == ~IsCurrent(w) \/ workers[w.index].closed

\* WorkerManager.getLeastLoadedWorker, `loadScore`: the router count plus
\* the CPU factor of the last usage sample (0 without one).
loadScore(w) == w.routerCount + w.usage

\* The first open worker of lowest router count.
getFewestRoutersWorker ==
    LET open == {i \in 1..NumWorkers : ~workers[i].closed}
    IN IF open = {} THEN 1
       ELSE CHOOSE i \in open :
               \A j \in open :
                  \/ workers[i].routerCount < workers[j].routerCount
                  \/ (workers[i].routerCount = workers[j].routerCount /\ i <= j)
\* WorkerManager.getLeastLoadedWorker: the first open worker of lowest load
\* score; the worker of the first slot if none is open.
getLeastLoadedWorker ==
    LET open == {i \in 1..NumWorkers : ~workers[i].closed}
    IN IF open = {} THEN 1
       ELSE CHOOSE i \in open :
               \A j \in open :
                  \/ loadScore(workers[i]) < loadScore(workers[j])
                  \/ (loadScore(workers[i]) = loadScore(workers[j]) /\ i <= j)

\* WorkerManager.incrementRouterCount / decrementRouterCount.
incrementRouterCount(ws, w) ==
    IF IsCurrent(w) THEN [ws EXCEPT ![w.index].routerCount = @ + 1] ELSE ws
decrementRouterCount(ws, w) ==
    IF IsCurrent(w) /\ ws[w.index].routerCount > 0
    THEN [ws EXCEPT ![w.index].routerCount = @ - 1] ELSE ws

\* RouterManager.createRouter, `existingRouter`: the routers of the room.
RoutersOf(r) == {id \in DOMAIN routers : routers[id].roomId = r}
\* ... and the one `find` returns, the first that was put into the map.
FirstRouterOf(r) == CHOOSE id \in RoutersOf(r) : \A id2 \in RoutersOf(r) : id.n <= id2.n

\* A createRouter or closeRouter call in flight, the k-th of those in flight.
SfuOp(pc, r, id, w, k) == [pc |-> pc, room |-> r, routerId |-> id, worker |-> w, call |-> k]
FreeCall == CHOOSE k \in 1..MaxSfuOps : \A op \in sfuOps : op.call # k

\* RouterManager.createRouter for a room that has a router in the map: that
\* router's id is returned.
CreateRouterExisting(r) ==
    /\ RoutersOf(r) # {}
    /\ lastReturn' = [room |-> r, routerId |-> FirstRouterOf(r)]
    /\ UNCHANGED <<poolVars, cbVars, ctxVars, pingVars, msgVars, now, sent, healthVars, rateVars, placement, redisQ, tasks, clientVars, rooms,
                   sfuNodes, turnVars, obsVars, workers, routers, sfuOps, uuids>>

\* RouterManager.createRouter up to `await worker.createRouter`: a room
\* without a router has the least loaded worker asked for one (a closed
\* worker refuses at once).
CreateRouter(r) ==
    /\ Cardinality(sfuOps) < MaxSfuOps
    /\ RoutersOf(r) = {}
    /\ ~WorkerClosed(WorkerRef(getLeastLoadedWorker))
    /\ sfuOps' = sfuOps \cup {SfuOp("cr_worker", r, NoRouter, WorkerRef(getLeastLoadedWorker), FreeCall)}
    /\ lastReturn' = NoReturn
    /\ UNCHANGED <<poolVars, cbVars, ctxVars, pingVars, msgVars, now, sent, healthVars, rateVars, placement, redisQ, tasks, clientVars, rooms, sfuNodes, turnVars,
                   obsVars, workers, routers, uuids>>

\* RouterManager.createRouter after the worker answered: the call fails if
\* the worker died; else the router is recorded under a new uuid, the
\* worker's router count goes up and the placement is sent to Redis.
CreateRouterMade(op) ==
    /\ op \in sfuOps /\ op.pc = "cr_worker"
    /\ IF WorkerClosed(op.worker)
       THEN /\ sfuOps' = sfuOps \ {op}
            /\ UNCHANGED <<workers, routers, uuids>>
       ELSE /\ uuids < MaxRouters
            /\ uuids' = uuids + 1
            /\ routers' = [id \in DOMAIN routers \cup {SfuRouterIdOf(uuids)} |->
                             IF id = SfuRouterIdOf(uuids)
                             THEN [roomId |-> op.room, worker |-> op.worker, closed |-> FALSE,
                                   transports |-> {}, producers |-> {}, consumers |-> {}, made |-> 0]
                             ELSE routers[id]]
            /\ workers' = incrementRouterCount(workers, op.worker)
            /\ sfuOps' = (sfuOps \ {op})
                            \cup {SfuOp("cr_redis", op.room, SfuRouterIdOf(uuids), op.worker, op.call)}
    /\ lastReturn' = NoReturn
    /\ UNCHANGED <<poolVars, cbVars, ctxVars, pingVars, msgVars, now, sent, healthVars, rateVars, placement, redisQ, tasks, clientVars, rooms, sfuNodes, turnVars, obsVars>>

\* RouterManager.createRouter, `await this.redisService.setRoomRouter`: the
\* SFU node's placement of the room reaches Redis, and the call returns the
\* id of the router it made.
CreateRouterStored(op) ==
    /\ op \in sfuOps /\ op.pc = "cr_redis"
    /\ placement' = [placement EXCEPT ![op.room] = [nodeId |-> SfuNodeId, routerId |-> op.routerId]]
    /\ sfuOps' = sfuOps \ {op}
    /\ lastReturn' = [room |-> op.room, routerId |-> op.routerId]
    /\ UNCHANGED <<poolVars, cbVars, ctxVars, pingVars, msgVars, now, sent, healthVars, rateVars, redisQ, tasks, clientVars, rooms, sfuNodes, turnVars, obsVars,
                   workers, routers, uuids>>

\* The values of a Map whose keys are numbers given out in rising order, as
\* `for (... of map.values())` visits them: in the order they were set.
RECURSIVE InOrder(_)
InOrder(S) ==
    IF S = {} THEN <<>>
    ELSE LET m == CHOOSE x \in S : \A y \in S : x <= y
         IN <<m>> \o InOrder(S \ {m})
Closed(kind, ids) == [k \in 1..Len(ids) |-> [kind |-> kind, id |-> ids[k]]]

\* The router is closed before what it holds.
closeRouterFirst(rr) ==
    <<[kind |-> "router", id |-> 0]>>
        \o Closed("consumer", InOrder({c.id : c \in rr.consumers}))
        \o Closed("producer", InOrder(rr.producers))
        \o Closed("transport", InOrder(rr.transports))
\* RouterManager.closeRouter, the close() calls it makes, in order: every
\* consumer, every producer, every transport, the router.
closeOrder(rr) ==
    Closed("consumer", InOrder({c.id : c \in rr.consumers}))
        \o Closed("producer", InOrder(rr.producers))
        \o Closed("transport", InOrder(rr.transports))
        \o <<[kind |-> "router", id |-> 0]>>

\* RouterManager.closeRouter, `if (!roomRouter) return`: no router of that
\* id is in the map, nothing is closed.
CloseRouterUnknown(id) ==
    /\ id \notin DOMAIN routers
    /\ closeLog' = [routerId |-> id, closed |-> <<>>]
    /\ lastReturn' = NoReturn
    /\ UNCHANGED <<poolVars, cbVars, pingVars, msgVars, now, sent, healthVars, rateVars, placement, redisQ, tasks, clientVars, rooms,
                   sfuNodes, turnVars, obsVars, workers, routers, sfuOps, uuids>>

\* RouterManager.closeRouter up to `await this.redisService.deleteRoomRouter`:
\* what the router holds and the router are closed and the worker's router
\* count goes down.
CloseRouter(id) ==
    /\ Cardinality(sfuOps) < MaxSfuOps
    /\ id \in DOMAIN routers
    /\ closeLog' = [routerId |-> id, closed |-> closeOrder(routers[id])]
    /\ routers' = [routers EXCEPT ![id].closed = TRUE]
    /\ workers' = decrementRouterCount(workers, routers[id].worker)
    /\ sfuOps' = sfuOps \cup {SfuOp("cl_redis", routers[id].roomId, id, routers[id].worker, FreeCall)}
    /\ lastReturn' = NoReturn
    /\ UNCHANGED <<poolVars, cbVars, pingVars, msgVars, now, sent, healthVars, rateVars, placement, redisQ, tasks, clientVars, rooms, sfuNodes, turnVars,
                   obsVars, uuids>>

\* RouterManager.closeRouter after Redis deleted the room's placement: the
\* router leaves the map.
CloseRouterDeleted(op) ==
    /\ op \in sfuOps /\ op.pc = "cl_redis"
    /\ placement' = [placement EXCEPT ![op.room] = NoPlacement]
    /\ routers' = [id \in DOMAIN routers \ {op.routerId} |-> routers[id]]
    /\ sfuOps' = sfuOps \ {op}
    /\ lastReturn' = NoReturn
    /\ UNCHANGED <<poolVars, cbVars, ctxVars, pingVars, msgVars, now, sent, healthVars, rateVars, redisQ, tasks, clientVars, rooms, sfuNodes, turnVars, obsVars,
                   workers, uuids>>

\* A worker process dies: mediasoup closes the worker and its routers (the
\* 'transportclose' handlers take their producers and consumers out of the
\* maps), and the 'died' handler starts handleWorkerDeath.
WorkerDied(i) ==
    /\ ~workers[i].closed
    /\ workers[i].pid < MaxRestarts
    /\ workers' = [workers EXCEPT ![i].closed = TRUE]
    /\ restarts' = restarts \cup {i}
    /\ routers' = [id \in DOMAIN routers |->
                     IF routers[id].worker = WorkerRef(i)
                     THEN [routers[id] EXCEPT !.closed = TRUE, !.producers = {}, !.consumers = {}]
                     ELSE routers[id]]
    /\ lastReturn' = NoReturn
    /\ UNCHANGED <<poolSlots, shutdownDone, cbVars, ctxVars, pingVars, msgVars, now, sent, healthVars, rateVars, placement, redisQ, tasks, clientVars, rooms, sfuNodes, turnVars,
                   obsVars, sfuOps, uuids>>

\* The new worker keeps the router count of the slot.
RestartedKeepsCount(w) == [pid |-> w.pid + 1, closed |-> FALSE, routerCount |-> w.routerCount, usage |-> 0]
\* handleWorkerDeath, the WorkerInfo it puts into the slot: a new worker
\* process, no router, no usage sample.
Restarted(w) == [pid |-> w.pid + 1, closed |-> FALSE, routerCount |-> 0, usage |-> 0]

\* WorkerManager.handleWorkerDeath is waiting for its delay to pass.
RestartPending(i) == i \in restarts

\* WorkerManager.handleWorkerDeath after its delay: a new worker is made and
\* put at the index of the slot (mediasoup.createWorker is taken to succeed).
handleWorkerDeath(i) ==
    /\ RestartPending(i)
    /\ restarts' = restarts \ {i}
    /\ workers' = [workers EXCEPT ![i] = Restarted(@)]
    /\ poolSlots' = poolSlots \cup {i}
    /\ lastReturn' = NoReturn
    /\ UNCHANGED <<shutdownDone, cbVars, ctxVars, pingVars, msgVars, now, sent, healthVars, rateVars, placement, redisQ, tasks, clientVars, rooms, sfuNodes, turnVars,
                   obsVars, routers, sfuOps, uuids>>

\* WorkerManager.shutdown: every worker of the pool that is open is closed
\* and the pool is emptied.
shutdown ==
    /\ ~shutdownDone
    /\ workers' = [i \in 1..NumWorkers |->
                     IF i \in poolSlots THEN [workers[i] EXCEPT !.closed = TRUE] ELSE workers[i]]
    /\ poolSlots' = {}
    /\ shutdownDone' = TRUE
    /\ lastReturn' = NoReturn
    /\ UNCHANGED <<restarts, cbVars, ctxVars, pingVars, msgVars, now, sent, healthVars, rateVars, placement, redisQ, tasks, clientVars, rooms, sfuNodes, turnVars,
                   obsVars, routers, sfuOps, uuids>>

\* startResourceMonitoring, one worker of its loop: the usage of an open
\* worker is sampled.
MonitorUsage(i, u) ==
    /\ i \in poolSlots
    /\ ~workers[i].closed
    /\ workers' = [workers EXCEPT ![i].usage = u]
    /\ lastReturn' = NoReturn
    /\ UNCHANGED <<poolVars, cbVars, ctxVars, pingVars, msgVars, now, sent, healthVars, rateVars, placement, redisQ, tasks, clientVars, rooms, sfuNodes, turnVars,
                   obsVars, routers, sfuOps, uuids>>

\* RouterManager.createTransport: a transport is made in an open router of
\* the map and put into its transports.
createTransport(id) ==
    /\ id \in DOMAIN routers /\ ~routers[id].closed
    /\ routers[id].made < MaxCtxObjects
    /\ routers' = [routers EXCEPT ![id].transports = @ \cup {routers[id].made + 1},
                                  ![id].made = @ + 1]
    /\ lastReturn' = NoReturn
    /\ UNCHANGED <<poolVars, cbVars, ctxVars, pingVars, msgVars, now, sent, healthVars, rateVars, placement, redisQ, tasks, clientVars, rooms,
                   sfuNodes, turnVars, obsVars, workers, sfuOps, uuids>>

\* RouterManager.produce: a producer is made on a transport of the router
\* and put into its producers.
produce(id, t) ==
    /\ id \in DOMAIN routers /\ ~routers[id].closed
    /\ t \in routers[id].transports
    /\ routers[id].made < MaxCtxObjects
    /\ routers' = [routers EXCEPT ![id].producers = @ \cup {routers[id].made + 1},
                                  ![id].made = @ + 1]
    /\ lastReturn' = NoReturn
    /\ UNCHANGED <<poolVars, cbVars, ctxVars, pingVars, msgVars, now, sent, healthVars, rateVars, placement, redisQ, tasks, clientVars, rooms,
                   sfuNodes, turnVars, obsVars, workers, sfuOps, uuids>>

\* RouterManager.consume: for a producer of the router that the caller can
\* consume, a consumer is made on a transport of the router and put into its
\* consumers.
consume(id, t, p) ==
    /\ id \in DOMAIN routers /\ ~routers[id].closed
    /\ t \in routers[id].transports
    /\ p \in routers[id].producers
    /\ routers[id].made < MaxCtxObjects
    /\ routers' = [routers EXCEPT
                     ![id].consumers = @ \cup {[id |-> routers[id].made + 1, producerId |-> p]},
                     ![id].made = @ + 1]
    /\ lastReturn' = NoReturn
    /\ UNCHANGED <<poolVars, cbVars, ctxVars, pingVars, msgVars, now, sent, healthVars, rateVars, placement, redisQ, tasks, clientVars, rooms,
                   sfuNodes, turnVars, obsVars, workers, sfuOps, uuids>>

\* RouterManager.closeProducer: the producer is closed and leaves the map;
\* the 'producerclose' handlers take its consumers out of theirs.
closeProducer(id, p) ==
    /\ id \in DOMAIN routers
    /\ p \in routers[id].producers
    /\ routers' = [routers EXCEPT ![id].producers = @ \ {p},
                                  ![id].consumers = {c \in @ : c.producerId # p}]
    /\ lastReturn' = NoReturn
    /\ UNCHANGED <<poolVars, cbVars, ctxVars, pingVars, msgVars, now, sent, healthVars, rateVars, placement, redisQ, tasks, clientVars, rooms,
                   sfuNodes, turnVars, obsVars, workers, sfuOps, uuids>>

\* ------------------------------------------------------- connection limit
WindowTicks == ConnectionDuration * TicksPerSecond
BlockTicks == ConnectionBlockDuration * TicksPerSecond

\* The entry is in the store at time t: it was set and has not expired.
IsLive(e, t) == e.count > 0 /\ t < e.expiresAt

\* connectionLimiter.consume(ip, 1), the store's part: a live entry is
\* incremented, a missing one starts a window at 1.
Upsert(e, t) ==
    IF IsLive(e, t) THEN [e EXCEPT !.count = @ + 1]
    ELSE [count |-> 1, expiresAt |-> t + WindowTicks]

\* consume rejects: more points are consumed than the limiter has.
Exceeds(e) == e.count > ConnectionPoints
\* The key is blocked on the first consume that exceeds, not on later ones.
StartsBlock(e) == Exceeds(e) /\ ConnectionBlockDuration > 0 /\ e.count <= ConnectionPoints + 1

\* The entry after consume at time t.
Consumed(e, t) ==
    IF StartsBlock(Upsert(e, t)) THEN [Upsert(e, t) EXCEPT !.expiresAt = t + BlockTicks]
    ELSE Upsert(e, t)

\* rateLimiterRes.msBeforeNext of consume at time t, in ticks.
msBeforeNext(e, t) == Consumed(e, t).expiresAt - t

\* The seconds of ms ticks, rounded down.
retryAfterFloor(ms) == ms \div TicksPerSecond
\* `Math.ceil(rateLimiterRes.msBeforeNext / 1000) || 1`
retryAfterOf(ms) ==
    IF (ms + TicksPerSecond - 1) \div TicksPerSecond = 0 THEN 1
    ELSE (ms + TicksPerSecond - 1) \div TicksPerSecond

\* RateLimiterService.checkConnection at time t.
checkConnection(e, t) ==
    IF Exceeds(Upsert(e, t))
    THEN [allowed |-> FALSE, retryAfter |-> retryAfterOf(msBeforeNext(e, t))]
    ELSE [allowed |-> TRUE, retryAfter |-> 0]

Attempt(t, res, closed, clients) ==
    [t |-> t, allowed |-> res.allowed, retryAfter |-> res.retryAfter,
     closed |-> closed, clients |-> clients]

\* handleConnection for a socket of the source address: refused by the
\* limiter, the socket is closed; else the client is put into `clients`.
handleConnection ==
    /\ Len(attempts) < MaxAttempts
    /\ limiter' = Consumed(limiter, clock)
    /\ LET res == checkConnection(limiter, clock)
       IN IF ~res.allowed
          THEN /\ nclients' = nclients
               /\ attempts' = Append(attempts, Attempt(clock, res, TRUE, nclients))
          ELSE /\ nclients' = nclients + 1
               /\ attempts' = Append(attempts, Attempt(clock, res, FALSE, nclients + 1))
    /\ UNCHANGED <<poolVars, cbVars, ctxVars, pingVars, msgVars, now, sent, healthVars, sfuVars, placement, redisQ, tasks, clientVars, rooms, sfuNodes,
                   turnVars, obsVars, clock>>

\* Time passes at the limiter's store.
ClockTick ==
    /\ clock < MaxClock
    /\ clock' = clock + 1
    /\ UNCHANGED <<poolVars, cbVars, ctxVars, pingVars, msgVars, now, sent, healthVars, sfuVars, placement, redisQ, tasks, clientVars, rooms, sfuNodes,
                   turnVars, obsVars, limiter, nclients, attempts>>

\* --------------------------------------------------------- message limits
\* limiter.consume(key, 1) of a limiter without block duration, the store's
\* part: a live entry is incremented, a missing one starts a window at 1.
ConsumeOne(e, t, window) ==
    IF IsLive(e, t) THEN [e EXCEPT !.count = @ + 1]
    ELSE [count |-> 1, expiresAt |-> t + window]

\* RateLimiterService.checkMessage for connection c and user u ("none" for
\* `undefined`) at time t: the connection's point is consumed first; the
\* user's point only if that did not reject and there is a user.
checkMessage(c, u, t) ==
    LET ce == ConsumeOne(msgLimiter[c], t, MessageWindowTicks)
        connOk == ce.count <= MessagePoints
        asksUser == connOk /\ u # "none"
        ue == IF asksUser THEN ConsumeOne(userLimiter[u], t, GlobalWindowTicks) ELSE NoEntry
    IN [conn |-> ce, asksUser |-> asksUser, user |-> ue,
        allowed |-> connOk /\ (asksUser => ue.count <= GlobalMessagePoints)]

Checked(t, c, u, res) == [t |-> t, c |-> c, u |-> u, allowed |-> res.allowed]

\* socket.on('message') as the limiters see it: checkMessage is asked with
\* the client's id and its user as it is when the message arrives; a
\* refused message is answered RATE_LIMIT_EXCEEDED and not dispatched.  Of
\* the handlers only a successful authenticate as `login` matters to the
\* limiters: it sets client.user.
OnMessage(c, login) ==
    /\ sock[c] = "open"
    /\ Len(msgLog) < MaxMsgs
    /\ MayTakeAlone
    /\ LET res == checkMessage(c, user[c], clock)
       IN /\ msgLimiter' = [msgLimiter EXCEPT ![c] = res.conn]
          /\ userLimiter' = IF res.asksUser THEN [userLimiter EXCEPT ![user[c]] = res.user]
                            ELSE userLimiter
          /\ msgLog' = Append(msgLog, Checked(clock, c, user[c], res))
          /\ user' = IF res.allowed /\ login # "none" /\ user[c] = "none"
                     THEN [user EXCEPT ![c] = login] ELSE user
          /\ out' = IF res.allowed THEN {} ELSE sendError(c, "RATE_LIMIT_EXCEEDED")
    /\ UNCHANGED <<poolVars, cbVars, ctxVars, pingVars, now, sent, healthVars, sfuVars, rateVars, placement, redisQ, tasks, sock, registered,
                   roomId, participantId, producerIds, consumerIds, rooms, sfuNodes, turnVars,
                   cleanups, leftSeen, closedSeen>>

\* Time passes at the message limiters' stores.
MessageClockTick == clock < MaxMsgClock /\ ClockTick

\* -------------------------------------------------------- connection probe
\* No handler is in flight and no Redis command unanswered.
Quiescent == redisQ = <<>> /\ \A c \in Conns, s \in Slots : tasks[c][s].pc = "idle"

\* PingInterval seconds pass; a handler takes far less, so none is in flight
\* across the step.
PingTime ==
    /\ pclock < MaxPingClock
    /\ Quiescent
    /\ pclock' = pclock + PingInterval
    /\ UNCHANGED <<poolVars, cbVars, ctxVars, lastPing, msgVars, now, sent, healthVars, sfuVars, rateVars, placement, redisQ, tasks,
                   clientVars, rooms, sfuNodes, turnVars, obsVars>>

\* socket.on('pong'): `client.lastPing = Date.now()`.
OnPong(c) ==
    /\ sock[c] = "open"
    /\ lastPing[c] < pclock
    /\ MayTakeAlone
    /\ lastPing' = [lastPing EXCEPT ![c] = pclock]
    /\ UNCHANGED <<poolVars, cbVars, ctxVars, pclock, msgVars, now, sent, healthVars, sfuVars, rateVars, placement, redisQ, tasks,
                   clientVars, rooms, sfuNodes, turnVars, obsVars>>

\* No client is ever late.
NeverTimedOut(c) == FALSE
\* pingClients, `now - client.lastPing > timeout`.
IsTimedOut(c) == pclock - lastPing[c] > PingTimeout

\* SignalingServer.pingClients: every client of the map whose last pong is
\* too long ago has its socket terminated (the 'close' event follows); the
\* others are sent a ping, which changes nothing here.
pingClients ==
    /\ MayTakeAlone
    /\ sock' = [c \in Conns |->
                  IF registered[c] /\ IsTimedOut(c) /\ sock[c] = "open" THEN "terminated"
                  ELSE sock[c]]
    /\ out' = {}
    /\ UNCHANGED <<poolVars, cbVars, ctxVars, pingVars, msgVars, now, sent, healthVars, sfuVars, rateVars, placement, redisQ, tasks,
                   registered, user, roomId, participantId, producerIds, consumerIds, rooms,
                   sfuNodes, turnVars, cleanups, leftSeen, closedSeen>>

\* ------------------------------------------------------------ node health
\* redisService.get of the node's heartbeat key: the time of the last beat, or
\* none (-1) once the key has expired or if it was never set.
heartbeatOf(n) ==
    IF report[n].at >= 0 /\ hclock < report[n].at + HeartbeatTTL THEN report[n].at ELSE 0 - 1

\* redisService.get of the node's stats key: whether it is there.
HasStats(n) == report[n].at >= 0 /\ hclock < report[n].at + StatsTTL

\* The SFU node's health interval: updateNodeHealth writes the stats and the
\* heartbeat of the node, each with its TTL.
UpdateNodeHealth(n, rt, cpu) ==
    /\ report' = [report EXCEPT ![n] = [at |-> hclock, routers |-> rt, cpu |-> cpu]]
    /\ lastCheck' = NoCheck
    /\ UNCHANGED <<poolVars, cbVars, ctxVars, pingVars, msgVars, now, sent, hclock, sfuVars, rateVars, placement, redisQ, tasks, clientVars, rooms,
                   sfuNodes, turnVars, obsVars>>

\* Time passes at the registry: keys past their TTL expire.
HealthTick ==
    /\ hclock < MaxHealthClock
    /\ hclock' = hclock + TickSeconds
    /\ lastCheck' = NoCheck
    /\ UNCHANGED <<poolVars, cbVars, ctxVars, pingVars, msgVars, now, sent, report, sfuVars, rateVars, placement, redisQ, tasks, clientVars, rooms,
                   sfuNodes, turnVars, obsVars>>

\* The node's health stays what it was.
healthKept(n) == sfuNodes[n].isHealthy
\* checkHealth, the health of a node whose heartbeat key was read: the
\* heartbeat is younger than StaleAfter; with no heartbeat, what it was.
healthAfter(n) ==
    IF heartbeatOf(n) >= 0 THEN hclock - heartbeatOf(n) < StaleAfter ELSE sfuNodes[n].isHealthy

\* SFUManager.checkHealth, one node of its loop, both reads answered.
CheckHealth(n) ==
    /\ sfuNodes' = [sfuNodes EXCEPT ![n] =
                       [isHealthy |-> healthAfter(n),
                        load |-> IF HasStats(n) THEN report[n].routers ELSE @.load]]
    /\ lastCheck' = [node |-> n, was |-> sfuNodes[n].isHealthy]
    /\ UNCHANGED <<poolVars, cbVars, ctxVars, pingVars, msgVars, now, sent, hclock, report, sfuVars, rateVars, placement, redisQ, tasks, clientVars,
                   rooms, turnVars, obsVars>>

\* SFUManager.checkHealth, one node of its loop, a read failing: the catch
\* marks the node unhealthy.
CheckHealthFails(n) ==
    /\ sfuNodes' = [sfuNodes EXCEPT ![n].isHealthy = FALSE]
    /\ lastCheck' = [node |-> n, was |-> sfuNodes[n].isHealthy]
    /\ UNCHANGED <<poolVars, cbVars, ctxVars, pingVars, msgVars, now, sent, hclock, report, sfuVars, rateVars, placement, redisQ, tasks, clientVars,
                   rooms, turnVars, obsVars>>

\* -------------------------------------------------------- circuit breaker

\* Cache::has at time t: the entry has not expired; one that was written a
\* whole lifetime of seconds ago is there until the instant of its expiry
\* within the second.
has(ch, k, t, l) == t < ch[k].expiresAt \/ (t = ch[k].expiresAt /\ ~l)
\* Cache::get with a default.
get(ch, k, t, l, default) == IF has(ch, k, t, l) THEN ch[k].value ELSE default
\* Cache::put with a lifetime in seconds, and Cache::forget.
put(ch, k, v, ttl, t) == [ch EXCEPT ![k] = [value |-> v, expiresAt |-> t + ttl]]
forget(ch, k) == [ch EXCEPT ![k] = NoItem]

\* CircuitBreakerService::setState: both state keys are cleared, and the key
\* of a state other than closed is set for RETRY_AFTER_SECONDS.
setState(ch, state, t) ==
    LET cleared == forget(forget(ch, "state:open"), "state:half_open")
    IN IF state # "closed"
       THEN put(cleared, "state:" \o state, 1, RETRY_AFTER_SECONDS, t)
       ELSE cleared

\* CircuitBreakerService::getState, `(time() - $openedAt) >= TIMEOUT_SECONDS`.
TimeoutExpired(openedAt, t) == t - openedAt >= TIMEOUT_SECONDS

\* CircuitBreakerService::getState, the state it returns: open while the
\* open key is there and the timeout has not expired, half-open when it has
\* or when the half-open key is there, else closed.
getState(ch, t, l) ==
    IF has(ch, "state:open", t, l)
    THEN LET openedAt == get(ch, "opened_at", t, l, 0)
         IN IF openedAt # 0 /\ TimeoutExpired(openedAt, t) THEN "half_open" ELSE "open"
    ELSE IF has(ch, "state:half_open", t, l) THEN "half_open"
    ELSE "closed"
\* ... and the cache it leaves: the transition to half-open is stored.
afterGetState(ch, t, l) ==
    IF has(ch, "state:open", t, l) /\ getState(ch, t, l) = "half_open"
    THEN setState(ch, "half_open", t)
    ELSE ch

\* CircuitBreakerService::recordFailure: the failure count, one higher, is
\* stored for RETRY_AFTER_SECONDS.
failuresAfter(ch, t, l) == get(ch, "failures", t, l, 0) + 1
recordFailure(ch, t, l) == put(ch, "failures", failuresAfter(ch, t, l), RETRY_AFTER_SECONDS, t)
\* CircuitBreakerService::recordSuccess.
recordSuccess(ch) == forget(forget(ch, "failures"), "half_open_successes")
\* CircuitBreakerService::recordHalfOpenSuccess.
successesAfter(ch, t, l) == get(ch, "half_open_successes", t, l, 0) + 1
recordHalfOpenSuccess(ch, t, l) ==
    put(ch, "half_open_successes", successesAfter(ch, t, l), TIMEOUT_SECONDS, t)
\* CircuitBreakerService::openCircuit and closeCircuit.
openCircuit(ch, t) == put(setState(ch, "open", t), "opened_at", t, RETRY_AFTER_SECONDS, t)
closeCircuit(ch, t) == recordSuccess(setState(ch, "closed", t))

\* The circuit opens only above the threshold.
OverThreshold(failures) == failures > FAILURE_THRESHOLD
\* CircuitBreakerService::executeClosed, `$failures >= self::FAILURE_THRESHOLD`.
ReachedThreshold(failures) == failures >= FAILURE_THRESHOLD

\* CircuitBreakerService::executeClosed, the cache it leaves: a success
\* clears the failure count, a failure is counted and opens the circuit at
\* the threshold.
executeClosed(ch, ok, t, l) ==
    IF ok THEN recordSuccess(ch)
    ELSE IF ReachedThreshold(failuresAfter(ch, t, l))
         THEN openCircuit(recordFailure(ch, t, l), t)
         ELSE recordFailure(ch, t, l)

\* CircuitBreakerService::executeHalfOpen, the cache it leaves: a success is
\* counted and closes the circuit at SUCCESS_THRESHOLD, a failure opens it.
executeHalfOpen(ch, ok, t, l) ==
    IF ok
    THEN IF successesAfter(ch, t, l) >= SUCCESS_THRESHOLD
         THEN closeCircuit(recordHalfOpenSuccess(ch, t, l), t)
         ELSE recordHalfOpenSuccess(ch, t, l)
    ELSE openCircuit(ch, t)

\* What execute gives its caller.
ResultOf(state, ok, fallback) ==
    CASE state = "open" -> IF fallback THEN "fallback" ELSE "throws"
      [] state = "half_open" -> IF ok THEN "value" ELSE IF fallback THEN "fallback" ELSE "throws"
      [] OTHER -> IF ok THEN "value" ELSE "throws"

\* CircuitBreakerService::execute for the service, with a callback that
\* succeeds or throws and with or without a fallback.
execute(ok, fallback) ==
    LET state == getState(cache, ctime, late)
        ch == afterGetState(cache, ctime, late)
        failed == state = "closed" /\ ~ok
        opens == failed /\ getState(executeClosed(ch, ok, ctime, late), ctime, late) # "closed"
        near == failsInRow > 0 /\ ctime - lastFailAt < RETRY_AFTER_SECONDS
    IN /\ cache' = CASE state = "open" -> ch
                      [] state = "half_open" -> executeHalfOpen(ch, ok, ctime, late)
                      [] OTHER -> executeClosed(ch, ok, ctime, late)
       /\ cbLast' = [state |-> state, called |-> state # "open", result |-> ResultOf(state, ok, fallback),
                     seq |-> 1 - cbLast.seq,
                     oks |-> IF opens \/ (state = "half_open" /\ ~ok) THEN 0
                             ELSE IF state = "half_open" /\ cbLast.oks < SUCCESS_THRESHOLD
                                  THEN cbLast.oks + 1 ELSE cbLast.oks]
       /\ failsInRow' = IF state # "closed" \/ ok \/ opens THEN 0
                        ELSE IF failsInRow < FAILURE_THRESHOLD THEN failsInRow + 1 ELSE failsInRow
       /\ nearStreak' = IF state # "closed" \/ ok \/ opens THEN 0
                        ELSE IF ~near THEN 1
                        ELSE IF nearStreak < FAILURE_THRESHOLD THEN nearStreak + 1 ELSE nearStreak
       /\ lastFailAt' = IF failed /\ ~opens THEN ctime ELSE 0
       /\ UNCHANGED <<ctime, late>>
    /\ UNCHANGED <<poolVars, ctxVars, pingVars, msgVars, now, sent, healthVars, rateVars, placement, redisQ, tasks, clientVars, rooms,
                   sfuNodes, turnVars, obsVars, sfuVars>>

\* Time passes within the second: the entries written a whole lifetime ago
\* expire.
BreakerLate ==
    /\ ~late
    /\ late' = TRUE
    /\ UNCHANGED <<poolVars, ctime, cache, cbLast, failsInRow, nearStreak, lastFailAt>>
    /\ UNCHANGED <<poolVars, ctxVars, pingVars, msgVars, now, sent, healthVars, rateVars, placement, redisQ, tasks, clientVars, rooms,
                   sfuNodes, turnVars, obsVars, sfuVars>>

\* Time passes: the next step of the breaker's time begins, and the cache
\* drops what has expired.
BreakerTick ==
    /\ ctime < MaxBreakerClock
    /\ ctime' = ctime + BreakerStep
    /\ late' = FALSE
    /\ cache' = [k \in CacheKeys |-> IF cache[k].expiresAt < ctime' THEN NoItem ELSE cache[k]]
    /\ UNCHANGED <<poolVars, cbLast, failsInRow, nearStreak, lastFailAt>>
    /\ UNCHANGED <<poolVars, ctxVars, pingVars, msgVars, now, sent, healthVars, rateVars, placement, redisQ, tasks, clientVars, rooms,
                   sfuNodes, turnVars, obsVars, sfuVars>>

\* ------------------------------------------------------------ specification
\* The steps of the event loop that take an event.
Events ==
    \/ Tick
    \/ RedisReply
    \/ \E c \in Conns, s \in MsgSlots : AuthReply(c, s)

Authenticate ==
    \/ \E c \in Conns, s \in MsgSlots : HandleAuthenticate(c, s)
    \/ \E c \in Conns, s \in MsgSlots : AuthenticateDone(c, s)

Join ==
    \/ \E c \in Conns, s \in MsgSlots : HandleJoinRoom(c, s)
    \/ \E c \in Conns, s \in MsgSlots : AllocateRoom(c, s)
    \/ \E c \in Conns, s \in MsgSlots : AllocateRoomStored(c, s)
    \/ \E c \in Conns, s \in MsgSlots : JoinSetClient(c, s)
    \/ \E c \in Conns, s \in MsgSlots : JoinReply(c, s)

Leave ==
    \/ \E c \in Conns, s \in MsgSlots : HandleLeaveRoom(c, s)
    \/ \E c \in Conns, s \in Slots : LeaveRoomDelete(c, s)
    \/ \E c \in Conns, s \in Slots : CleanupBroadcast(c, s)
    \/ \E c \in Conns, s \in Slots : CleanupClear(c, s)

Close ==
    \/ \E c \in Conns : SocketClose(c)
    \/ \E c \in Conns : CloseFinish(c)

Consume ==
    \/ \E c \in Conns, s \in MsgSlots : HandleConsume(c, s)
    \/ \E c \in Conns, s \in MsgSlots : ConsumeDone(c, s)

\* Producing, and leaving with producers to close.
Produce ==
    \/ \E c \in Conns, s \in MsgSlots : HandleProduce(c, s)
    \/ \E c \in Conns, s \in MsgSlots : ProduceDone(c, s)
    \/ \E c \in Conns, s \in Slots : CleanupLoop(c, s)

CloseProducer ==
    \/ \E c \in Conns, s \in MsgSlots : HandleCloseProducer(c, s)
    \/ \E c \in Conns, s \in MsgSlots : CloseProducerDone(c, s)

Other ==
    \/ \E c \in Conns, s \in MsgSlots : RateLimited(c, s)
    \/ \E c \in Conns, s \in MsgSlots : HandleUnknown(c, s)
    \/ \E c \in Conns, s \in MsgSlots : HandleGetRouterRtpCapabilities(c, s)

\* Two clients that log in, then join and leave as they like.
Next ==
    \/ \E c \in Conns : \E m \in SessionMsgs(c) : Receive(c, m)
    \/ Events \/ Authenticate \/ Join \/ Leave

Spec == Init /\ [][Next]_vars

\* Two clients that log in and join, then use media and leave as they like.
NextMedia ==
    \/ \E c \in Conns : \E m \in MediaMsgs(c) : Receive(c, m)
    \/ Events \/ Authenticate \/ Join \/ Leave \/ Produce \/ CloseProducer \/ Consume

SpecMedia == Init /\ [][NextMedia]_vars

\* One client that sends any message at any time.
NextAny ==
    \/ \E m \in AnyMsgs("c1") : Receive("c1", m)
    \/ Events \/ Authenticate \/ Join \/ Leave \/ Close \/ Produce \/ Other

SpecAny == Init /\ [][NextAny]_vars

\* One client that authenticates again and again, joins and leaves.
NextIdentity ==
    \/ \E m \in IdentityMsgs("c1") : Receive("c1", m)
    \/ Events \/ Authenticate \/ Join \/ Leave

SpecIdentity == Init /\ [][NextIdentity]_vars

\* A client that logs in, joins a room and leaves it, waiting for each
\* answer before it sends the next message.
NodeMsgs(c) ==
    IF ~HasBudget(c, MaxNodeMsgs) \/ FreeSlots(c) # SlotsOf(c) THEN {}
    ELSE IF user[c] = "none" THEN {Login(c)}
    ELSE IF roomId[c] = "none" THEN JoinMsgs
    ELSE {Msg("leave-room")}

\* One client that sends any message at any time, beside a client that logs
\* in and joins a room.
NextErrors ==
    \/ \E m \in AnyMsgs("c1") : Receive("c1", m)
    \/ \E m \in NodeMsgs("c2") : Receive("c2", m)
    \/ Events \/ Authenticate \/ Join \/ Leave \/ Other
    \/ \E c \in Conns, s \in MsgSlots : HandleProduce(c, s)
    \/ \E c \in Conns, s \in MsgSlots : ProduceDone(c, s)

SpecErrors == Init /\ [][NextErrors]_vars

\* The steps of the gateway that need no new input: replies and microtasks.
GatewaySteps ==
    \/ RedisReply
    \/ \E c \in Conns, s \in MsgSlots : AuthReply(c, s)
    \/ Authenticate \/ Join \/ Leave

\* The steps of the SFU node that need no new input.
SfuSteps ==
    \/ \E op \in sfuOps : CreateRouterMade(op)
    \/ \E op \in sfuOps : CreateRouterStored(op)
    \/ \E op \in sfuOps : CloseRouterDeleted(op)
    \/ \E i \in 1..NumWorkers : handleWorkerDeath(i)

\* What comes from outside: a client's message, a call of the SFU node's
\* API (one at a time), the death of a worker.
NodeInputs ==
    \/ \E m \in NodeMsgs("c1") : Receive("c1", m)
    \/ \E r \in Rooms : sfuOps = {} /\ CreateRouter(r)
    \/ \E id \in DOMAIN routers : sfuOps = {} /\ CloseRouter(id)
    \/ \E i \in 1..NumWorkers : WorkerDied(i)

\* One gateway client and the SFU node, sharing the placement store.
NextNode == NodeInputs \/ GatewaySteps \/ SfuSteps

SpecNode == Init /\ [][NextNode]_vars

\* Replies arrive, continuations run and timers fire: the steps that need no
\* new input are taken if they stay possible.
FairSpecNode == SpecNode /\ WF_vars(GatewaySteps) /\ WF_vars(SfuSteps)

\* The SFU node alone: calls of its API that may overlap, usage samples,
\* deaths of workers.
NextWorkers ==
    \/ \E r \in Rooms : CreateRouter(r)
    \/ \E r \in Rooms : CreateRouterExisting(r)
    \/ \E id \in DOMAIN routers : CloseRouter(id)
    \/ \E i \in 1..NumWorkers : WorkerDied(i)
    \/ \E i \in 1..NumWorkers, u \in 0..MaxUsage : MonitorUsage(i, u)
    \/ SfuSteps

SpecWorkers == Init /\ [][NextWorkers]_vars

\* The router ids a caller may name.
RouterIds == {SfuRouterIdOf(n) : n \in 0..(MaxRouters - 1)}

\* The SFU node's routers filled and closed: one createRouter or closeRouter
\* call at a time, transports, producers and consumers made in between.
NextContexts ==
    \/ \E r \in Rooms : sfuOps = {} /\ CreateRouter(r)
    \/ \E id \in DOMAIN routers : CloseRouter(id)
    \/ \E id \in RouterIds : CloseRouterUnknown(id)
    \/ \E id \in DOMAIN routers : createTransport(id)
    \/ \E id \in DOMAIN routers : \E t \in routers[id].transports : produce(id, t)
    \/ \E id \in DOMAIN routers : \E t \in routers[id].transports, p \in routers[id].producers :
          consume(id, t, p)
    \/ \E id \in DOMAIN routers : \E p \in routers[id].producers : closeProducer(id, p)
    \/ \E i \in 1..NumWorkers : WorkerDied(i)
    \/ SfuSteps

SpecContexts == Init /\ [][NextContexts]_vars

\* The worker pool until and after its shutdown: workers die and are
\* restarted, their usage is sampled, the pool is shut down once.
NextPool ==
    \/ \E i \in 1..NumWorkers : WorkerDied(i)
    \/ \E i \in 1..NumWorkers : handleWorkerDeath(i)
    \/ \E i \in 1..NumWorkers, u \in 0..MaxUsage : MonitorUsage(i, u)
    \/ shutdown

SpecPool == Init /\ [][NextPool]_vars

\* One service behind the circuit breaker, called over time.
NextBreaker ==
    \/ \E ok \in BOOLEAN, fallback \in BOOLEAN : execute(ok, fallback)
    \/ BreakerLate
    \/ BreakerTick

SpecBreaker == Init /\ [][NextBreaker]_vars

\* The restart timer of a dead worker's slot fires.
FairSpecWorkers == SpecWorkers /\ \A i \in 1..NumWorkers : WF_vars(handleWorkerDeath(i))

\* Connection attempts of one source address over time.
NextRate == ClockTick \/ handleConnection

SpecRate == Init /\ [][NextRate]_vars

\* Connections that send messages, log in as some user and close, over time.
NextMessages ==
    \/ MessageClockTick
    \/ \E c \in Conns, login \in {"u1", "none"} : OnMessage(c, login)
    \/ RedisReply
    \/ Close

SpecMessages == Init /\ [][NextMessages]_vars

\* A client that answers the probe logs in, joins a room and produces or
\* leaves, waiting for each answer; a client that has not answered the last
\* probe sends nothing.
PingMsgs(c) ==
    IF ~HasBudget(c, MaxPingMsgs) \/ FreeSlots(c) # SlotsOf(c) \/ lastPing[c] < pclock THEN {}
    ELSE IF user[c] = "none" THEN {Login(c)}
    ELSE IF roomId[c] = "none" THEN JoinMsgs
    ELSE ProduceMsgs(c) \cup {Msg("leave-room")}

\* The steps of the gateway with the probe that need no new input: replies,
\* continuations, and the 'close' event of a terminated socket.
ProbeSteps ==
    \/ GatewaySteps
    \/ Produce
    \/ \E c \in Conns : TerminatedClose(c)
    \/ \E c \in Conns : CloseFinish(c)

\* Clients that answer the probe or not, and the probe.
NextPing ==
    \/ \E c \in Conns : \E m \in PingMsgs(c) : Receive(c, m)
    \/ \E c \in Conns : OnPong(c)
    \/ PingTime
    \/ pingClients
    \/ ProbeSteps

SpecPing == Init /\ [][NextPing]_vars

\* The probe's timer fires again and again, replies arrive and
\* continuations run.
FairSpecPing == SpecPing /\ WF_vars(pingClients) /\ WF_vars(ProbeSteps)

\* The reports of the nodes, the passing of time and the health checks.
HealthSteps ==
    \/ HealthTick
    \/ \E n \in NodeIds, rt \in 0..MaxLoad, cpu \in 0..MaxCpu : UpdateNodeHealth(n, rt, cpu)
    \/ \E n \in NodeIds : CheckHealth(n)
    \/ \E n \in NodeIds : CheckHealthFails(n)

\* The node registry and the gateway's view of the nodes' health.
NextHealth == HealthSteps

SpecHealth == Init /\ [][NextHealth]_vars

\* checkHealth runs on its interval, and its reads of the store do not fail
\* for ever.
FairSpecHealth == SpecHealth /\ \A n \in NodeIds : WF_vars(CheckHealth(n))

\* One gateway client, and health checks of the nodes it may be placed on
\* while no node reports.
NextPlacement ==
    \/ \E m \in NodeMsgs("c1") : Receive("c1", m)
    \/ GatewaySteps
    \/ \E n \in NodeIds : CheckHealth(n)
    \/ \E n \in NodeIds : CheckHealthFails(n)

SpecPlacement == Init /\ [][NextPlacement]_vars

\* ------------------------------------------------------------------ claims
\* C1: for every room, once a placement has been written for it, no later
\* allocateRoom writes another one over it: the first writer wins, and the
\* placement stays what it is until it is released.
C1_FirstWriterWins ==
    [][\A r \in Rooms :
          placement[r] # NoPlacement => placement'[r] \in {placement[r], NoPlacement}]_vars

\* A step of the handler in slot s of connection c.
StepOf(c, s) == tasks[c][s].w = "ready" /\ tasks'[c][s] # tasks[c][s]

\* C2: a message other than authenticate that is handled while the
\* connection has no authenticated user ends at once with an authentication
\* error to the caller (or the rate limiter's refusal), and the step calls
\* no RoomManager method.
C2_RejectedBeforeAuth ==
    [][\A c \in Conns, s \in MsgSlots :
          (StepOf(c, s) /\ tasks[c][s].pc = "rl" /\ user[c] = "none"
              /\ tasks[c][s].m.event # "authenticate")
          => /\ tasks'[c][s] = Idle
             /\ out' \in {sendError(c, "NOT_AUTHENTICATED"), sendError(c, "RATE_LIMIT_EXCEEDED")}]_vars

\* C3: for every connection, the room cleanup of one stay in a room runs at
\* most once, whether it is started by leave-room or by the socket's close.
C3_CleanupOnce == \A c \in Conns : cleanups[c] <= 1

\* The steps of cleanupClientRoom that change the room state, for the
\* participant pid of room r.
CleanupStepFor(c, s, r, pid) ==
    /\ StepOf(c, s)
    /\ \/ /\ tasks[c][s].pc = "rl" /\ tasks[c][s].m.event = "leave-room" /\ InRoom(c)
          /\ r = roomId[c] /\ pid = participantId[c]
       \/ /\ tasks[c][s].pc \in {"cl_prod", "cl_release"}
          /\ r = tasks[c][s].loc.room /\ pid = tasks[c][s].loc.pid

\* C4: a step of one participant's leave removes nothing of any other
\* participant: every other roster entry of the room is still there after
\* it, with the same producers and consumers.
C4_OthersUnchanged ==
    [][\A c \in Conns, s \in Slots, r \in Rooms :
          \A pid \in RosterOf(r) \cup {participantId[c]} :
             CleanupStepFor(c, s, r, pid)
             => \A q \in RosterOf(r) \ {pid} :
                   /\ rooms'[r].exists
                   /\ q \in DOMAIN rooms'[r].parts
                   /\ rooms'[r].parts[q] = rooms[r].parts[q]]_vars

\* The routing contexts of room r that are still open on the SFU node.
OpenRoutersOf(rts, r) == {id \in DOMAIN rts : rts[id].roomId = r /\ ~rts[id].closed}

\* C5: when the leaveRoom that emptied a room's roster has finished (the
\* release of the allocation answered, the room deleted), the room has no
\* placement record and no open routing context.
C5_ReleasedAndClosed ==
    [][\A c \in Conns, s \in Slots :
          (StepOf(c, s) /\ tasks[c][s].pc = "cl_release")
          => /\ placement'[tasks[c][s].loc.room] = NoPlacement
             /\ OpenRoutersOf(routers', tasks[c][s].loc.room) = {}]_vars

\* The room's placement names a routing context whose worker has died.
RoomLost(r) ==
    /\ placement[r] # NoPlacement
    /\ placement[r].routerId \in RoutersOf(r)
    /\ WorkerClosed(routers[placement[r].routerId].worker)

\* C6: when the worker of a room's routing context has died, the room's
\* placement record is eventually cleared.
C6_WorkerLossClearsPlacement ==
    \A r \in Rooms : RoomLost(r) ~> (placement[r] = NoPlacement)

\* A consume request whose capabilities do not cover the producer.
Incompatible(m) == m.event = "consume" /\ ~canConsume(m.prod, m.caps)

\* C7: the handling of a consume request whose capabilities are
\* incompatible with the producer changes neither the room state nor the
\* caller's consumerIds, sends no consumer-created, and ends with an error
\* event to the caller, who stays in its room.
C7_IncompatibleConsume ==
    [][\A c \in Conns, s \in MsgSlots :
          (StepOf(c, s) /\ Incompatible(tasks[c][s].m))
          => /\ rooms' = rooms
             /\ consumerIds'[c] = consumerIds[c]
             /\ roomId'[c] = roomId[c]
             /\ \A o \in out' : o.ev # "consumer-created"
             /\ (tasks'[c][s] = Idle => \E o \in out' : o.to = c /\ o.ev = "error")]_vars

\* The source address has been quiet before attempt j: every earlier
\* attempt is a window or more ago, every earlier refusal a block or more.
Quiet(j) ==
    \A k \in 1..(j - 1) :
       /\ attempts[j].t - attempts[k].t >= WindowTicks
       /\ ~attempts[k].allowed => attempts[j].t - attempts[k].t >= BlockTicks

\* Clients registered by the first i attempts.
Registered(i) == Cardinality({k \in 1..i : attempts[k].allowed})

\* C8: counted from an attempt before which the source was quiet, the first
\* ConnectionPoints attempts within the window are allowed and register a
\* client; the next one within the window is refused; every refusal has a
\* retry-after of at least one second and closes the socket without
\* registering a client; and the first attempt after a refusal that comes
\* once the block duration has passed since every refusal is allowed.
C8_ConnectionLimit ==
    \A i \in 1..Len(attempts) :
       /\ \A j \in 1..i :
             (Quiet(j) /\ attempts[i].t - attempts[j].t < WindowTicks)
             => /\ i - j < ConnectionPoints => attempts[i].allowed
                /\ i - j = ConnectionPoints => ~attempts[i].allowed
       /\ attempts[i].clients = Registered(i)
       /\ attempts[i].allowed => ~attempts[i].closed
       /\ ~attempts[i].allowed => attempts[i].closed /\ attempts[i].retryAfter >= 1
       /\ (i > 1 /\ ~attempts[i - 1].allowed
             /\ \A d \in 1..(i - 1) :
                   ~attempts[d].allowed => attempts[i].t - attempts[d].t >= BlockTicks)
          => attempts[i].allowed

\* ConnectionPoints attempts were allowed within the window, the next one
\* within it refused, and an attempt after the block allowed again.
C8_Witness ==
    /\ Len(attempts) = ConnectionPoints + 2
    /\ attempts[ConnectionPoints + 1].t - attempts[1].t < WindowTicks
    /\ \A i \in 1..ConnectionPoints : attempts[i].allowed
    /\ ~attempts[ConnectionPoints + 1].allowed
    /\ attempts[ConnectionPoints + 1].retryAfter = ConnectionBlockDuration
    /\ attempts[ConnectionPoints + 2].allowed
    /\ attempts[ConnectionPoints + 2].t - attempts[ConnectionPoints + 1].t >= BlockTicks

\* C9: no new-producer notification reaches a peer that has already been
\* told that the producer was closed or that the producer's owner left.
C9_NoNewProducerAfterClose ==
    \A o \in out :
       (o.ev = "new-producer" /\ o.to \in Conns)
       => /\ o.prod \notin closedSeen[o.to]
          /\ o.prod.pid \notin leftSeen[o.to]

\* The handler in slot s of connection c is past its dispatch and not done.
Handling(c, s) == tasks[c][s].pc \notin {"idle", "rl"}

\* C10: the handling of a message of a connection does not start while the
\* handling of another message of that connection has started and is not
\* completed.
C10_InArrivalOrder ==
    [][\A c \in Conns, s1 \in MsgSlots, s2 \in MsgSlots :
          (s1 # s2 /\ Handling(c, s1) /\ tasks[c][s2].pc = "rl")
          => (tasks'[c][s2].pc = "rl" \/ ~Handling(c, s1)')]_vars

\* C11: the step of handleAuthenticate that follows the auth service's answer
\* records the user and answers `authenticated` only when the token is
\* valid and the user is a member of the organization; on any failure it
\* answers an error of code AUTH_FAILED and records no user: a connection
\* without a user stays without one.
C11_AuthenticateOutcome ==
    [][\A c \in Conns, s \in MsgSlots :
          (StepOf(c, s) /\ tasks[c][s].pc = "auth")
          => LET m == tasks[c][s].m
                 verified == m.token \in Users
                 member == m.org = "org1"
             IN /\ (verified /\ member)
                      => /\ user'[c] = m.token
                         /\ out' = send(c, "authenticated", "", NoPid, NoProd, {}, c)
                /\ ~(verified /\ member)
                      => /\ user'[c] = user[c]
                         /\ out' = sendError(c, "AUTH_FAILED")
                         /\ \A o \in out' : o.ev # "authenticated"]_vars

\* An authenticate (bad token or non-member) was refused with
\* AUTH_FAILED, and the connection has no user.
C11_Witness ==
    /\ user["c1"] = "none"
    /\ sent["c1"] = 1
    /\ \E o \in out : o.to = "c1" /\ o.ev = "error" /\ o.code = "AUTH_FAILED"

\* C12: a join-room that succeeds puts the connection in the room under its
\* new participant id; its room-joined carries the roster that
\* getParticipants read after the join, less the joiner; and its
\* participant-joined goes to exactly the other open connections whose room
\* is that room, not to the joiner and not to a connection outside the room.
C12_JoinReplyAndBroadcast ==
    [][\A c \in Conns, s \in MsgSlots :
          LET t == tasks[c][s]
          IN /\ (StepOf(c, s) /\ t.pc = "join_ret")
                   => /\ roomId'[c] = t.m.room
                      /\ participantId'[c] = t.loc.pid
                      /\ user'[c] = user[c]
                      /\ tasks'[c][s].loc.snap = RosterOf(t.m.room) \ {t.loc.pid}
             /\ (StepOf(c, s) /\ t.pc = "join_list")
                   => /\ sock[c] = "open"
                         => \E o \in out' :
                               /\ o.to = c /\ o.ev = "room-joined" /\ o.pid = t.loc.pid
                               /\ o.roster = t.loc.snap
                      /\ {o.to : o \in {o2 \in out' : o2.ev = "participant-joined"}}
                            = {d \in Conns \ {c} :
                                 registered[d] /\ roomId[d] = t.m.room /\ sock[d] = "open"}
                      /\ \A o \in out' : o.ev = "participant-joined" => o.pid = t.loc.pid]_vars

\* A join was answered with a roster that names a peer, and announced to
\* that peer.
C12_Witness ==
    \E o1 \in out, o2 \in out :
       /\ o1.ev = "room-joined" /\ o1.roster # {}
       /\ o2.ev = "participant-joined" /\ o2.to # o1.to /\ o2.pid = o1.pid

\* Message m is unknown, or the connection is in the wrong state for it.
WrongState(c, m) ==
    \/ m.event = "unknown"
    \/ m.event = "join-room" /\ user[c] = "none"
    \/ m.event \in {"produce", "consume", "close-producer"} /\ roomId[c] = "none"

\* C13: the handling of an unknown message, or of a message that comes in
\* the wrong connection state, sends an error event to the sender, leaves
\* the socket open and changes nothing of the connection's state.
C13_WrongStateError ==
    [][\A c \in Conns, s \in MsgSlots :
          (StepOf(c, s) /\ tasks[c][s].pc = "rl" /\ WrongState(c, tasks[c][s].m))
          => /\ \E o \in out' : o.to = c /\ o.ev = "error"
             /\ sock'[c] = "open"
             /\ <<user[c], roomId[c], participantId[c], producerIds[c], consumerIds[c]>>'
                  = <<user[c], roomId[c], participantId[c], producerIds[c], consumerIds[c]>>]_vars

C15_AllocationIdempotent ==
    [][\A c \in Conns, s \in MsgSlots :
          LET t == tasks[c][s]
          IN (StepOf(c, s) /\ t.pc = "alloc_get" /\ t.loc.existing # NoPlacement)
             => /\ redisQ' = redisQ
                /\ placement' = placement
                /\ rooms'[t.m.room].routerId = t.loc.existing.routerId
                /\ rooms'[t.m.room].sfuNode = NodeAddress(t.loc.existing.nodeId)]_vars

\* C20: the placement record of a room is removed only when the room has no
\* participant: no step takes the record away while the roster is not empty.
C20_ReleaseOnlyWhenEmpty ==
    [][\A r \in Rooms :
          (placement[r] # NoPlacement /\ placement'[r] = NoPlacement)
          => RosterOf(r) = {}]_vars

\* The node has reported, and its last heartbeat is HeartbeatTTL or more ago.
WentStale(n) == report[n].at >= 0 /\ hclock - report[n].at >= HeartbeatTTL

\* C16: a node that the health check has just looked at while its heartbeat
\* was stale is still in the node set, is marked unhealthy, and is not the
\* node getBestNode selects.
C16_StaleMarkedUnhealthy ==
    \A n \in NodeIds :
       (lastCheck.node = n /\ WentStale(n))
       => /\ n \in DOMAIN sfuNodes
          /\ ~sfuNodes[n].isHealthy
          /\ getBestNode # n

\* The node's heartbeat key is in the store.
Fresh(n) == heartbeatOf(n) >= 0

\* C17: a node that is marked unhealthy and whose heartbeat is in the store
\* is eventually marked healthy again by a health check, unless its
\* heartbeat goes stale first; once healthy, getBestNode may select it.
C17_NodeRecovers ==
    \A n \in NodeIds :
       (~sfuNodes[n].isHealthy /\ Fresh(n)) ~> (sfuNodes[n].isHealthy \/ ~Fresh(n))

\* A health check has found a node that was marked unhealthy with its
\* heartbeat in the store, and marked it healthy.
C17_Witness ==
    \E n \in NodeIds :
       /\ lastCheck.node = n /\ ~lastCheck.was
       /\ Fresh(n) /\ sfuNodes[n].isHealthy
       /\ n \in HealthyNodes

\* The load score of a node as it reports it: its count of routers plus its
\* CPU factor, a fraction of MaxCpu + 1 levels (the score times MaxCpu + 1).
LoadScore(n) == report[n].routers * (MaxCpu + 1) + report[n].cpu

\* The gateway's load of every healthy node is that of the node's stats.
LoadsUpToDate ==
    \A n \in HealthyNodes : HasStats(n) /\ sfuNodes[n].load = report[n].routers

\* The place of node n in the scan of the nodes.
ScanIndex(n) == CHOOSE i \in 1..Len(NodeOrder) : NodeOrder[i] = n

\* C18: with the loads up to date, the node getBestNode selects for an
\* allocation is healthy, its load score is minimal among the healthy
\* nodes, and it is the first scanned of the healthy nodes of that score.
C18_SelectsMinScore ==
    (getBestNode # "none" /\ LoadsUpToDate)
    => /\ getBestNode \in HealthyNodes
       /\ \A m \in HealthyNodes :
             /\ LoadScore(getBestNode) <= LoadScore(m)
             /\ LoadScore(getBestNode) = LoadScore(m) => ScanIndex(getBestNode) <= ScanIndex(m)

\* C19: a join-room whose allocation finds no placement and no healthy
\* node ends with an error event to the joining client; it sends no write
\* to the store, creates no placement, no room and no participant, and
\* leaves the connection authenticated and in no room.
C19_AllocationErrorSurfaced ==
    [][\A c \in Conns, s \in MsgSlots :
          LET t == tasks[c][s]
          IN (StepOf(c, s) /\ t.pc = "alloc_get" /\ t.loc.existing = NoPlacement
                /\ HealthyNodes = {})
             => /\ \E o \in out' : o.to = c /\ o.ev = "error" /\ o.code = "JOIN_FAILED"
                /\ tasks'[c][s] = Idle
                /\ <<placement, redisQ, rooms>>' = <<placement, redisQ, rooms>>
                /\ user'[c] = user[c] /\ user[c] # "none"
                /\ roomId'[c] = "none" /\ participantId'[c] = NoPid]_vars

\* With every node unhealthy, a join was refused with JOIN_FAILED and left
\* no room and no placement behind.
C19_Witness ==
    /\ HealthyNodes = {}
    /\ \E o \in out : o.to = "c1" /\ o.ev = "error" /\ o.code = "JOIN_FAILED"
    /\ \A r \in Rooms : ~rooms[r].exists /\ placement[r] = NoPlacement
    /\ user["c1"] = "u1" /\ roomId["c1"] = "none"

\* The messages of the log that were counted against key k (a connection
\* id by field "c", a user id by field "u").
LogOf(f, k) == {i \in 1..Len(msgLog) : msgLog[i][f] = k}

\* Key k has been quiet for a window before message j: every earlier
\* message of k is a window or more ago.
QuietFor(f, k, j, window) ==
    \A i \in LogOf(f, k) : i < j => msgLog[j].t - msgLog[i].t >= window

\* The messages of k allowed within the window that message j opens.
AllowedFrom(f, k, j, window) ==
    {i \in LogOf(f, k) : i >= j /\ msgLog[i].t - msgLog[j].t < window /\ msgLog[i].allowed}

\* C21: counted from a message before which the user was quiet for a
\* per-user window, the messages allowed to the user within that window,
\* over all its connections, are at most GlobalMessagePoints; and counted
\* from a message before which a connection was quiet for a per-connection
\* window, the messages allowed to that connection within that window are
\* at most MessagePoints.
C21_MessageLimits ==
    /\ \A u \in Users : \A j \in LogOf("u", u) :
          QuietFor("u", u, j, GlobalWindowTicks)
          => Cardinality(AllowedFrom("u", u, j, GlobalWindowTicks)) <= GlobalMessagePoints
    /\ \A c \in Conns : \A j \in LogOf("c", c) :
          QuietFor("c", c, j, MessageWindowTicks)
          => Cardinality(AllowedFrom("c", c, j, MessageWindowTicks)) <= MessagePoints

\* C22: the end of a disconnect drops the message counter of the closed
\* connection and leaves the counter of its user as it is.
C22_UserCounterPersists ==
    [][\A c \in Conns :
          (StepOf(c, CloseSlot) /\ tasks[c][CloseSlot].pc = "reset")
          => /\ msgLimiter'[c] = NoEntry
             /\ userLimiter' = userLimiter]_vars

\* Nothing of connection c is left: its socket is closed, its close handler
\* done, it is out of the client map, and no roster has a participant and no
\* room a producer of its user.
Gone(c) ==
    /\ sock[c] = "closed" /\ ~registered[c] /\ tasks[c][CloseSlot] = Idle
    /\ \A r \in Rooms :
          /\ \A q \in RosterOf(r) : q.user # UserOf(c)
          /\ \A pr \in ProducersIn(r) : pr.pid.user # UserOf(c)

C24_RemovedOnDisconnect ==
    \A c \in Conns :
       (sock[c] = "closed" /\ \A s \in Slots : tasks[c][s] = Idle)
       => \A r \in Rooms :
             /\ \A q \in RosterOf(r) : q.user # UserOf(c)
             /\ \A pr \in ProducersIn(r) : pr.pid.user # UserOf(c)

\* C25: a step that puts a routing context of a room into the
\* RouterManager's map does so only when the room has none, and raises the
\* router count of exactly one worker by one; and whenever a createRouter
\* call returns, the room has exactly one routing context, the one whose id
\* the call returns.
C25_CreateRouterIdempotent ==
    [][\A r \in Rooms :
          /\ (RoutersOf(r))' \ RoutersOf(r) # {}
                => /\ RoutersOf(r) = {}
                   /\ \E i \in 1..NumWorkers :
                         /\ workers'[i].routerCount = workers[i].routerCount + 1
                         /\ \A j \in 1..NumWorkers : j # i => workers'[j] = workers[j]
          /\ lastReturn'.room = r => (RoutersOf(r))' = {lastReturn'.routerId}]_vars

\* C28: a createRouter call for a room whose routing context is in the map
\* does not return a context whose worker has died.
C28_NoContextOfDeadWorker ==
    [][\A r \in Rooms :
          (RoutersOf(r) # {} /\ lastReturn'.room = r /\ sfuOps' = sfuOps)
          => ~WorkerClosed(routers[lastReturn'.routerId].worker)]_vars

C27_LeastLoadedAlive ==
    (\E i \in 1..NumWorkers : ~workers[i].closed)
    => /\ ~workers[getLeastLoadedWorker].closed
       /\ \A j \in 1..NumWorkers :
             ~workers[j].closed
             => workers[getLeastLoadedWorker].routerCount + workers[getLeastLoadedWorker].usage
                <= workers[j].routerCount + workers[j].usage

\* Of two open workers the first has fewer routers and the higher load
\* score, and the second is selected.
C27_Witness ==
    /\ ~workers[1].closed /\ ~workers[2].closed
    /\ workers[1].routerCount < workers[2].routerCount
    /\ workers[1].usage > workers[2].usage
    /\ getLeastLoadedWorker = 2

\* C29: the participant id a joinRoom call makes is not the id of a
\* participant that is in the room's roster: a join overwrites no roster
\* entry, whatever the time of the join.
C29_DistinctParticipantIds ==
    [][\A c \in Conns, s \in MsgSlots :
          (StepOf(c, s) /\ tasks'[c][s].pc = "join_ret")
          => tasks'[c][s].loc.pid \notin RosterOf(tasks[c][s].m.room)]_vars

CloseRank(kind) ==
    CASE kind = "consumer" -> 1 [] kind = "producer" -> 2 [] kind = "transport" -> 3 [] OTHER -> 4
\* A step that is a closeRouter call for router id of the map.
ClosesRouter(id) ==
    \E op \in sfuOps' \ sfuOps : op.pc = "cl_redis" /\ op.routerId = id
\* What a router holds, and the router, as entries of the log.
HeldBy(rr) ==
    {[kind |-> "consumer", id |-> c.id] : c \in rr.consumers}
        \cup {[kind |-> "producer", id |-> q] : q \in rr.producers}
        \cup {[kind |-> "transport", id |-> t] : t \in rr.transports}
        \cup {[kind |-> "router", id |-> 0]}

ExecuteStep == cbLast'.seq # cbLast.seq

C33_RecoversThroughHalfOpen ==
    [][ExecuteStep =>
          /\ (cbLast.state \in {"open", "half_open"} /\ cbLast'.state = "closed")
                => cbLast.oks >= SUCCESS_THRESHOLD
          /\ (cbLast'.state = "half_open" /\ cbLast'.result # "value")
                => getState(cache', ctime', late') = "open"]_vars

\* C34: a connection whose join has returned and that has not left (it is
\* open, holds a room and a participant id, and none of its handlers is in
\* flight) has its participant in the roster of the room state the gateway
\* holds under that room id.
C34_NoJoinLost ==
    \A c \in Conns :
       (sock[c] = "open" /\ registered[c] /\ InRoom(c) /\ \A s \in Slots : tasks[c][s] = Idle)
       => participantId[c] \in RosterOf(roomId[c])

\* The connections of the client map that (roomId, participantId) make the
\* owner of participant q of room r.
OwnersOf(r, q) == {c \in Conns : registered[c] /\ roomId[c] = r /\ participantId[c] = q}

\* C35: when no handler is in flight, every roster entry has exactly one
\* connection of the client map whose roomId and participantId name it (so
\* no connection has left a participant of its own behind in a roster).
C35_NoOrphanParticipants ==
    (\A c \in Conns, s \in Slots : tasks[c][s] = Idle)
    => \A r \in Rooms : \A q \in RosterOf(r) : Cardinality(OwnersOf(r, q)) = 1

\* C36: a step of a close-producer handler takes a producer only out of the
\* participant of the requesting connection, and the producer-closed it
\* sends names a producer of that participant.
C36_OwnProducerOnly ==
    [][\A c \in Conns, s \in MsgSlots :
          (StepOf(c, s) /\ tasks[c][s].m.event = "close-producer") =>
             /\ \A r \in Rooms : \A q \in RosterOf(r) :
                   rooms'[r].parts[q].producers # rooms[r].parts[q].producers
                      => q = participantId[c]
             /\ \A o \in out' : o.ev = "producer-closed" => o.prod.pid = participantId[c]]_vars

\* C37: every consumer of a roster entry names a producer that some entry
\* of the same roster holds.
C37_NoDanglingConsumers ==
    \A r \in Rooms : \A cons \in ConsumersIn(r) : cons.prod \in ProducersIn(r)

\* C38: the user id recorded in the roster entry that a connection's roomId
\* and participantId name is the user the connection is authenticated as.
C38_IdentityStable ==
    \A c \in Conns :
       (registered[c] /\ InRoom(c) /\ participantId[c] \in RosterOf(roomId[c]))
       => rooms[roomId[c]].parts[participantId[c]].uid = user[c]

\* The routers of the map that are bound to the worker now in slot i.
BoundTo(i) == {id \in DOMAIN routers : routers[id].worker = WorkerRef(i)}

\* C39: with no createRouter or closeRouter call in flight, the router count
\* of every slot of the pool is not negative and is the number of routers of
\* the map that are bound to the worker in that slot.
C39_LoadAccounting ==
    sfuOps = {} =>
       \A i \in 1..NumWorkers :
          /\ workers[i].routerCount >= 0
          /\ workers[i].routerCount = Cardinality(BoundTo(i))

\* C40: once WorkerManager.shutdown has returned, the pool holds no worker
\* and no worker process is open.
C40_PoolStaysEmpty ==
    shutdownDone => /\ poolSlots = {}
                    /\ \A i \in 1..NumWorkers : workers[i].closed
====
